---- MODULE Spec2Model ----
(***************************************************************************)
(* Customer-history view (BookedRooms.tsx): the rooms, stays and payment   *)
(* fetches, the merged transaction list and the totals derived from it;    *)
(* the rooms fetch of both versions of RoomList; and the cache of          *)
(* DataService.                                                            *)
(***************************************************************************)
EXTENDS Integers, Sequences, FiniteSets, TLC

(* ------------------------------ bounds --------------------------------- *)
\* most payment documents of one stay, when the documents differ in type only
MaxEntries == 4
\* most payment documents of one stay, when type, mode and amount all vary
MaxRichEntries == 2
\* amounts of payment documents range over -MaxAmt..MaxAmt
MaxAmt == 1
\* the rent of a stay ranges over -1..MaxRent
MaxRent == 1
\* most error notifications counted
MaxToasts == 2

(* --------------------------- value domains ----------------------------- *)
\* PaymentEntry.type values the view distinguishes, and one it does not
PaymentTypes == {"initial", "advance", "extension", "shop-purchase", "other"}

\* PaymentEntry.mode values: the two the view counts as paid, and one other
PaymentModes == {"cash", "gpay", "card"}

Amounts == (0 - MaxAmt)..MaxAmt

Rents == (0 - 1)..MaxRent

\* An optional Timestamp is a sequence of at most one number of seconds.
NoTimestamp == << >>

\* description?: string, absent on documents that do not carry one
NoDescription == "undefined"

\* type Customer: a stay of the selected room, with fetchCustomers' default
\* for rent applied; checkedInAt may be missing from the document
\* (checkedOutAt is only displayed and is left out)
Customers ==
  [id : {"stay-1"}, guestName : {"Asha"}, phoneNumber : {"98"},
   checkedInAt : {NoTimestamp, <<0>>}, rent : Rents, isCheckedOut : {FALSE},
   roomId : {"room-1"}]

\* selectedCustomer = null
NoCustomer ==
  [id |-> "null", guestName |-> "", phoneNumber |-> "",
   checkedInAt |-> NoTimestamp, rent |-> 0, isCheckedOut |-> FALSE,
   roomId |-> ""]

(* ----------------------------- the store ------------------------------- *)
\* id of the i-th payment document of a stay
PaymentDocId(i) == "pay-" \o ToString(i)

\* a payment document written at time t
PaymentDoc(i, t, ty, mo, am) ==
  [id |-> PaymentDocId(i), amount |-> am, mode |-> mo, type |-> ty,
   timestamp |-> <<t>>, description |-> NoDescription]

\* The merge reads nothing of a document but its type: these documents vary
\* in type only (paid by gpay, amount 1).
PlainPaymentDocs(i, t) ==
  { PaymentDoc(i, t, ty, "gpay", 1) : ty \in PaymentTypes }

\* the modes recorded with an entry of a type: the totals read the mode of
\* initial and advance entries only
ModesOf(ty) ==
  IF ty \in {"initial", "advance"} THEN PaymentModes ELSE {"cash"}

\* documents varying in type, mode and amount
RichPaymentDocs(i, t) ==
  { PaymentDoc(i, t, x[1], x[2], x[3]) :
      x \in { y \in PaymentTypes \X PaymentModes \X Amounts : y[2] \in ModesOf(y[1]) } }

\* the shop purchases linked to the stay, as the shop-purchase service returns them
PurchaseStores ==
  { << >>,
    << [id |-> "shop-1", checkinId |-> "stay-1", amount |-> 2] >>,
    << [id |-> "shop-1", checkinId |-> "stay-1", amount |-> 2],
       [id |-> "shop-2", checkinId |-> "stay-1", amount |-> 3] >> }

(* ------------------------------- state --------------------------------- *)
VARIABLES
  customer,          \* the stay of the selected room (a checkins document)
  payments,          \* store: checkins/{id}/payments, in ascending timestamp order
  purchases,         \* store: the shop purchases linked to the stay
  now,               \* the clock read by Timestamp.now()
  pc,                \* position of the fetchPaymentHistory call in flight
  history,           \* fetchPaymentHistory: const history
  rentEntry,         \* fetchPaymentHistory: const rentEntry
  paymentHistory,    \* useState: paymentHistory
  selectedCustomer,  \* useState: selectedCustomer
  shopPurchases,     \* useState: shopPurchases
  toasts,            \* number of toast.error notifications raised so far
  phError            \* fetchPaymentHistory: the error its catch block logged

\* BookedRooms: the stays of the selected room
VARIABLES
  checkins,          \* store: the checkins collection
  selectedRoomId,    \* useState: selectedRoomId
  customers,         \* useState: customers
  fcpc,              \* position of the fetchCustomers call in flight
  fcRoomId,          \* fetchCustomers: its argument roomId
  fcError            \* fetchCustomers: the error its catch block logged

custVars == <<checkins, selectedRoomId, customers, fcpc, fcRoomId, fcError>>

\* BookedRooms: the rooms offered for selection
VARIABLES
  roomDocs,          \* store: the rooms collection
  rooms,             \* useState: rooms
  loading,           \* useState: loading
  selectedFloor,     \* useState: selectedFloor
  frpc,              \* position of the fetchRooms call in flight
  frError            \* fetchRooms: the error its catch block logged

roomVars == <<roomDocs, rooms, loading, selectedFloor, frpc, frError>>

\* RoomList: the room management screen
VARIABLES
  rlVersion,         \* which version of RoomList is running
  rlRooms,           \* useState: rooms
  rlLoading,         \* useState: loading
  rlError,           \* useState: error (the newer version only)
  rlMounted,         \* the component is mounted
  rlpc,              \* position of the fetchRooms call in flight
  rlIsMounted,       \* fetchRooms: its parameter isMounted
  rlLogged           \* fetchRooms: the error its catch block logged

listVars ==
  <<rlVersion, rlRooms, rlLoading, rlError, rlMounted, rlpc, rlIsMounted,
    rlLogged>>

\* DataService: the cache in front of the store
VARIABLES
  cache,             \* DataService.cache: the entry of each key, if any
  clockMs,           \* the clock read by Date.now()
  storeData,         \* store: what a read of the collections returns
  reads,             \* the store reads in flight, each with its cache key
  lastCall,          \* the last call made: its key and where its value is from
  cleared            \* for each key, clearCache ran and no call followed yet

cacheVars == <<cache, clockMs, storeData, reads, lastCall, cleared>>

\* RoomList: the confirmation modal and the commands it sends to the store
VARIABLES
  confirmModal,      \* useState: confirmModal
  calls,             \* the handler calls waiting for the store, each with the
                     \* rooms and the confirmModal of the render it was made in
  issued,            \* the commands sent to the store so far
  successToasts      \* the toast.success notifications raised so far

manageVars == <<confirmModal, calls, issued, successToasts>>

\* BookedRooms: the calls a later call of the same function has overtaken
VARIABLES
  fcEarlier,         \* earlier fetchCustomers calls in flight: their roomId
  phEarlier          \* earlier fetchPaymentHistory calls in flight: their
                     \* customer, position, history and rentEntry

earlierVars == <<fcEarlier, phEarlier>>

\* DataService: the reads for a list of bookings
VARIABLES
  bookingIds,        \* getPaymentsForBookings / getPurchasesForBookings: the
                     \* argument bookingIds
  bfKind,            \* which of the two functions was called
  bfpc,              \* position of the call
  bfReads,           \* the booking ids of the store reads issued, in order
  bfResult           \* the value returned

batchVars == <<bookingIds, bfKind, bfpc, bfReads, bfResult>>

\* the state fetchPaymentHistory and its writers leave alone
otherVars ==
  <<custVars, roomVars, listVars, cacheVars, manageVars, earlierVars,
    batchVars>>

\* the state fetchCustomers and the room dropdown leave alone, apart from the
\* payment view
notCustVars ==
  <<roomVars, listVars, cacheVars, manageVars, earlierVars, batchVars>>

vars ==
  <<customer, payments, purchases, now, pc, history, rentEntry,
    paymentHistory, selectedCustomer, shopPurchases, toasts, phError,
    otherVars>>

(* --------------------------- pure functions ---------------------------- *)
\* x || Timestamp.now()
\* mutant: the stored timestamp is not looked at
OrNow_Always(x, t) == <<t>>

OrNow(x, t) == IF x = NoTimestamp THEN <<t>> ELSE x

\* mutant: orderBy('timestamp', 'desc')
OrderByTimestampAsc_Desc(docs) ==
  [i \in 1..Len(docs) |-> docs[Len(docs) + 1 - i]]

\* query(paymentRef, orderBy('timestamp', 'asc')): insertion sort on seconds
RECURSIVE InsertByTimestamp(_, _)
InsertByTimestamp(d, s) ==
  IF s = << >> THEN <<d>>
  ELSE IF d.timestamp[1] < Head(s).timestamp[1] THEN <<d>> \o s
       ELSE <<Head(s)>> \o InsertByTimestamp(d, Tail(s))

RECURSIVE OrderByTimestampAsc(_)
OrderByTimestampAsc(docs) ==
  IF docs = << >> THEN << >>
  ELSE InsertByTimestamp(docs[Len(docs)],
                         OrderByTimestampAsc(SubSeq(docs, 1, Len(docs) - 1)))

\* const rentEntry = {...}
RentEntry(c, t) ==
  [id |-> "rent-entry", amount |-> c.rent, mode |-> "n/a",
   type |-> "Rent (Check-in)", timestamp |-> OrNow(c.checkedInAt, t),
   description |-> NoDescription]

\* mutant: the last match instead of the first
RECURSIVE FindInitial_Last(_)
FindInitial_Last(h) ==
  IF h = << >> THEN << >>
  ELSE IF h[Len(h)].type = "initial" THEN <<h[Len(h)]>>
       ELSE FindInitial_Last(SubSeq(h, 1, Len(h) - 1))

\* history.find(p => p.type === 'initial'): the first match, or << >> (undefined)
RECURSIVE FindInitial(_)
FindInitial(h) ==
  IF h = << >> THEN << >>
  ELSE IF Head(h).type = "initial" THEN <<Head(h)>>
       ELSE FindInitial(Tail(h))

\* mutant: the synthesized entry copies mode 'n/a' from rentEntry
AdvanceEntry_ModeNA(c, h, t) ==
  LET initialPayment == FindInitial(h)
  IN  IF initialPayment # << >> THEN initialPayment[1]
      ELSE [id |-> "advance-entry", amount |-> c.rent, mode |-> "n/a",
            type |-> "initial", timestamp |-> OrNow(c.checkedInAt, t),
            description |-> "Initial payment at check-in"]

\* const advanceEntry = initialPayment || {...}
AdvanceEntry(c, h, t) ==
  LET initialPayment == FindInitial(h)
  IN  IF initialPayment # << >> THEN initialPayment[1]
      ELSE [id |-> "advance-entry", amount |-> c.rent, mode |-> "cash",
            type |-> "initial", timestamp |-> OrNow(c.checkedInAt, t),
            description |-> "Initial payment at check-in"]

\* mutant: the filter keeps every entry
NotInitial_KeepAll(p) == TRUE

\* the predicate of history.filter
NotInitial(p) == p.type # "initial"

\* mutant: the real entries are spread unfiltered
FullHistory_Unfiltered(re, ae, h) == <<re, ae>> \o h

\* [rentEntry, advanceEntry, ...history.filter(p => p.type !== 'initial')]
FullHistory(re, ae, h) == <<re, ae>> \o SelectSeq(h, NotInitial)

\* Math.abs
Abs(x) == IF x < 0 THEN 0 - x ELSE x

\* mutant: the difference is not floored at 0
Max0_Identity(x) == x

\* Math.max(0, x)
Max0(x) == IF x > 0 THEN x ELSE 0

\* mutant: the amount is added with its sign
AddToTotalRent_NoAbs(totalRent, p) ==
  IF p.type = "extension" \/ p.type = "shop-purchase"
  THEN totalRent + p.amount
  ELSE totalRent

\* mutant: the charge is subtracted
AddToTotalRent_Minus(totalRent, p) ==
  IF p.type = "extension" \/ p.type = "shop-purchase"
  THEN totalRent - Abs(p.amount)
  ELSE totalRent

\* the body of paymentHistory.forEach in "Total Rent"
AddToTotalRent(totalRent, p) ==
  IF p.type = "extension" \/ p.type = "shop-purchase"
  THEN totalRent + Abs(p.amount)
  ELSE totalRent

RECURSIVE ForEachTotalRent(_, _)
ForEachTotalRent(totalRent, ph) ==
  IF ph = << >> THEN totalRent
  ELSE ForEachTotalRent(AddToTotalRent(totalRent, Head(ph)), Tail(ph))

\* "Total Rent": let totalRent = selectedCustomer.rent; paymentHistory.forEach(...)
TotalRent(sc, ph) == ForEachTotalRent(sc.rent, ph)

\* mutant: the mode is not looked at
IsCashGpayPayment_AnyMode(entry) ==
  entry.type = "initial" \/ entry.type = "advance"

\* mutant: initial payments are left out
IsCashGpayPayment_AdvanceOnly(entry) ==
  /\ entry.type = "advance"
  /\ (entry.mode = "cash" \/ entry.mode = "gpay")

\* the filter predicate of cashGpayPayments
IsCashGpayPayment(entry) ==
  /\ (entry.type = "initial" \/ entry.type = "advance")
  /\ (entry.mode = "cash" \/ entry.mode = "gpay")

CashGpayPayments(ph) == SelectSeq(ph, IsCashGpayPayment)

\* reduce((total, p) => total + p.amount, 0)
RECURSIVE ReduceAmounts(_, _)
ReduceAmounts(total, s) ==
  IF s = << >> THEN total
  ELSE ReduceAmounts(total + Head(s).amount, Tail(s))

\* "Total Paid"
TotalPaid(ph) == ReduceAmounts(0, CashGpayPayments(ph))

\* mutant: the purchases are counted
GetTotalShopPurchases_Count(sp) == Len(sp)

\* getTotalShopPurchases: shopPurchases.reduce((total, purchase) =>
\* total + purchase.amount, 0)
GetTotalShopPurchases(sp) == ReduceAmounts(0, sp)

\* "Pending": the total rent and the total paid are computed again, inline
PendingTotalRent(sc, ph) == ForEachTotalRent(sc.rent, ph)

PendingTotalPaid(ph) == ReduceAmounts(0, CashGpayPayments(ph))

\* "Pending": Math.max(0, totalRent - totalPaid)
Pending(sc, ph) == Max0(PendingTotalRent(sc, ph) - PendingTotalPaid(ph))

(* ------------------------------ actions -------------------------------- *)
\* no room selected, no stay listed, no fetchCustomers call in flight
CustomersIdle ==
  /\ checkins = << >>
  /\ selectedRoomId = ""
  /\ customers = << >>
  /\ fcpc = "idle"
  /\ fcRoomId = ""
  /\ fcError = ""

\* no room fetched and no fetchRooms call in flight
RoomsIdle ==
  /\ roomDocs = << >>
  /\ rooms = << >>
  /\ loading = FALSE
  /\ selectedFloor = ""
  /\ frpc = "idle"
  /\ frError = ""

\* error = null
NoError == << >>

\* An optional field of a document is a sequence of at most one value.
Missing == << >>

\* RoomList is not on screen
ListIdle ==
  /\ rlVersion = "part_001"
  /\ rlRooms = << >>
  /\ rlLoading = FALSE
  /\ rlError = NoError
  /\ rlMounted = FALSE
  /\ rlpc = "idle"
  /\ rlIsMounted = TRUE
  /\ rlLogged = ""

\* getCacheKey('rooms_with_bookings') and getCacheKey('all_payments'):
\* `${collectionName}_${JSON.stringify(queryParams || {})}`
CacheKeys == {"rooms_with_bookings_{}", "all_payments_{}"}

\* the cache is empty and DataService has not been called
CacheIdle ==
  /\ cache = [k \in CacheKeys |-> << >>]
  /\ clockMs = 0
  /\ storeData = "a"
  /\ reads = << >>
  /\ lastCall = [key |-> "", from |-> "", data |-> "", turn |-> 0]
  /\ cleared = [k \in CacheKeys |-> FALSE]

\* every part of the program but the payment fetch is at rest
\* { show: false, roomId: null, action: null }: newStatus and newPaymentStatus
\* are not set
ClosedModal ==
  [show |-> FALSE, roomId |-> "", action |-> "", newStatus |-> Missing,
   newPaymentStatus |-> Missing]

\* no confirmation is open and no command has been sent
ManageIdle ==
  /\ confirmModal = ClosedModal
  /\ calls = << >>
  /\ issued = { }
  /\ successToasts = 0

\* no call has been overtaken
EarlierIdle ==
  /\ fcEarlier = << >>
  /\ phEarlier = << >>

\* neither function has been called
BatchIdle ==
  /\ bookingIds = << >>
  /\ bfKind = ""
  /\ bfpc = "idle"
  /\ bfReads = << >>
  /\ bfResult = << >>

OthersIdle ==
  /\ CustomersIdle /\ RoomsIdle /\ ListIdle /\ CacheIdle /\ ManageIdle
  /\ EarlierIdle
  /\ BatchIdle

InitView ==
  /\ payments = << >>
  /\ now = 1
  /\ pc = "idle"
  /\ history = << >>
  /\ rentEntry = RentEntry(NoCustomer, 0)
  /\ paymentHistory = << >>
  /\ selectedCustomer = NoCustomer
  /\ shopPurchases = << >>
  /\ toasts = 0
  /\ phError = ""

Init ==
  /\ customer \in Customers
  /\ purchases \in PurchaseStores
  /\ InitView
  /\ OthersIdle

\* A writer (check-in, extension, shop or payment screen) appends a payment
\* document to the open stay. The collection is append-only and the history
\* view lists checked-out stays only, so writes precede the view.
AddPaymentFrom(docs) ==
  /\ ~customer.isCheckedOut
  /\ payments' = Append(payments, docs)
  /\ now' = now + 1
  /\ UNCHANGED <<customer, purchases, pc, history, rentEntry, paymentHistory,
                 selectedCustomer, shopPurchases, toasts, phError>>
  /\ UNCHANGED otherVars

AddPayment ==
  /\ Len(payments) < MaxEntries
  /\ \E d \in PlainPaymentDocs(Len(payments) + 1, now) : AddPaymentFrom(d)

AddRichPayment ==
  /\ Len(payments) < MaxRichEntries
  /\ \E d \in RichPaymentDocs(Len(payments) + 1, now) : AddPaymentFrom(d)

\* the stay is checked out: where('isCheckedOut', '==', true) now matches it
CheckOut ==
  /\ ~customer.isCheckedOut
  /\ customer' = [customer EXCEPT !.isCheckedOut = TRUE]
  /\ UNCHANGED <<payments, purchases, now, pc, history, rentEntry,
                 paymentHistory, selectedCustomer, shopPurchases, toasts, phError>>
  /\ UNCHANGED otherVars

\* onClick={() => fetchPaymentHistory(customer)}: up to the first await
ClickCustomer ==
  /\ customer.isCheckedOut
  /\ pc = "idle"
  /\ pc' = "getPayments"
  /\ phError' = ""
  /\ UNCHANGED <<customer, payments, purchases, now, history, rentEntry,
                 paymentHistory, selectedCustomer, shopPurchases, toasts>>
  /\ UNCHANGED otherVars

\* await getDocs(q) resolves: history and rentEntry are built, the purchases
\* read is issued
PaymentsRead ==
  /\ pc = "getPayments"
  /\ history' = OrderByTimestampAsc(payments)
  /\ rentEntry' = RentEntry(customer, now)
  /\ pc' = "getPurchases"
  /\ UNCHANGED <<customer, payments, purchases, now, paymentHistory,
                 selectedCustomer, shopPurchases, toasts, phError>>
  /\ UNCHANGED otherVars

\* mutant: the catch block also closes the transaction details
CatchError_Deselects ==
  /\ toasts < MaxToasts
  /\ toasts' = toasts + 1
  /\ phError' = "FirebaseError"
  /\ pc' = "idle"
  /\ history' = << >>
  /\ rentEntry' = RentEntry(NoCustomer, 0)
  /\ selectedCustomer' = NoCustomer
  /\ UNCHANGED <<customer, payments, purchases, now, paymentHistory,
                 shopPurchases>>
  /\ UNCHANGED otherVars

\* catch (error): console.error('Error fetching payment history:', error),
\* toast.error('Failed to fetch payment history')
CatchError ==
  /\ toasts < MaxToasts
  /\ toasts' = toasts + 1
  /\ phError' = "FirebaseError"
  /\ pc' = "idle"
  /\ history' = << >>
  /\ rentEntry' = RentEntry(NoCustomer, 0)
  /\ UNCHANGED <<customer, payments, purchases, now, paymentHistory,
                 selectedCustomer, shopPurchases>>
  /\ UNCHANGED otherVars

\* await getDocs(q) rejects
PaymentsReadFailed ==
  /\ pc = "getPayments"
  /\ CatchError

\* await ShopPurchaseService.getPurchasesByCheckin rejects
PurchasesReadFailed ==
  /\ pc = "getPurchases"
  /\ CatchError

\* ShopPurchaseService.getPurchasesByCheckin(checkinId): the shop purchases
\* linked to the stay, in the store's order
GetPurchasesByCheckin(ps, checkinId) ==
  SelectSeq(ps, LAMBDA p : p.checkinId = checkinId)

\* mutant: the shop purchases on display are left as they are
PurchasesRead_KeepsPurchases ==
  /\ pc = "getPurchases"
  /\ paymentHistory' =
       FullHistory(rentEntry, AdvanceEntry(customer, history, now), history)
  /\ selectedCustomer' = customer
  /\ pc' = "idle"
  /\ history' = << >>
  /\ rentEntry' = RentEntry(NoCustomer, 0)
  /\ UNCHANGED <<customer, payments, purchases, now, toasts, phError,
                 shopPurchases>>
  /\ UNCHANGED otherVars

\* await ShopPurchaseService.getPurchasesByCheckin resolves: the rest of the
\* try block
PurchasesRead ==
  /\ pc = "getPurchases"
  /\ shopPurchases' = GetPurchasesByCheckin(purchases, customer.id)
  /\ paymentHistory' =
       FullHistory(rentEntry, AdvanceEntry(customer, history, now), history)
  /\ selectedCustomer' = customer
  /\ pc' = "idle"
  /\ history' = << >>
  /\ rentEntry' = RentEntry(NoCustomer, 0)
  /\ UNCHANGED <<customer, payments, purchases, now, toasts, phError>>
  /\ UNCHANGED otherVars

Next ==
  \/ AddPayment
  \/ CheckOut
  \/ ClickCustomer
  \/ PaymentsRead
  \/ PaymentsReadFailed
  \/ PurchasesRead
  \/ PurchasesReadFailed

Spec == Init /\ [][Next]_vars

\* The totals: every type, mode and amount, on shorter histories.
InitTotals ==
  /\ customer \in { c \in Customers : c.checkedInAt # NoTimestamp }
  /\ purchases = << >>
  /\ InitView
  /\ OthersIdle

NextTotals ==
  \/ AddRichPayment
  \/ CheckOut
  \/ ClickCustomer
  \/ PaymentsRead
  \/ PurchasesRead

SpecTotals == InitTotals /\ [][NextTotals]_vars

(* ------------------- BookedRooms: the stays of a room ------------------ *)
\* most checkins documents in the store
MaxStays == 3
\* check-in times of stays range over 1..MaxCheckIn
MaxCheckIn == 2

\* id of the i-th rooms document
RoomDocId(i) == "room-" \o ToString(i)

\* the rooms the stays belong to
RoomIds == {RoomDocId(1), RoomDocId(2)}

\* id of the i-th checkins document
StayDocId(i) == "stay-" \o ToString(i)

\* checkins documents that differ in room, checked-out flag and check-in time
\* (which may be missing); the other fields are present. The guest still in
\* house is in room-1.
StayDocs(i) ==
  { d \in [id : {StayDocId(i)}, roomId : RoomIds, isCheckedOut : BOOLEAN,
            checkedInAt : {Missing} \cup { <<t>> : t \in 1..MaxCheckIn },
            guestName : {<<"Asha">>}, phoneNumber : {<<"98">>}, rent : {<<1>>}] :
      d.isCheckedOut \/ d.roomId = "room-1" }

\* the stores of n such documents
RECURSIVE StayStores(_)
StayStores(n) ==
  IF n = 0 THEN { << >> }
  ELSE { Append(st, d) : st \in StayStores(n - 1), d \in StayDocs(n) }

\* mutant: the checked-out condition is left out of the query
QueryCheckins_AnyFlag(docs, roomId) ==
  LET Matches(d) == d.roomId = roomId
  IN  SelectSeq(docs, Matches)

\* query(checkinsRef, where('roomId', '==', roomId), where('isCheckedOut', '==', true))
QueryCheckins(docs, roomId) ==
  LET Matches(d) == d.roomId = roomId /\ d.isCheckedOut = TRUE
  IN  SelectSeq(docs, Matches)

\* mutant: only a missing string takes the default (??)
OrString_Nullish(field, default) ==
  IF field = Missing THEN default ELSE field[1]

\* data.x || 'default' for a string field: missing and '' take the default
OrString(field, default) ==
  IF field = Missing \/ field[1] = "" THEN default ELSE field[1]

\* data.x || 0 for a number field: missing and 0 take the default
OrNumber(field, default) ==
  IF field = Missing \/ field[1] = 0 THEN default ELSE field[1]

\* data.isCheckedOut || false
OrFalse(flag) == flag

\* customersData.push({...})
CustomerOf(d) ==
  [id |-> d.id,
   guestName |-> OrString(d.guestName, "Unknown Guest"),
   phoneNumber |-> OrString(d.phoneNumber, "N/A"),
   checkedInAt |-> d.checkedInAt,
   rent |-> OrNumber(d.rent, 0),
   isCheckedOut |-> OrFalse(d.isCheckedOut),
   roomId |-> d.roomId]

\* querySnapshot.forEach(doc => customersData.push(...))
CustomersData(docs) == [i \in 1..Len(docs) |-> CustomerOf(docs[i])]

\* b.checkedInAt.seconds - a.checkedInAt.seconds reads .seconds of undefined
\* when either check-in time is missing; sort calls the comparator as soon as
\* the array has two elements
SortThrows(cs) ==
  /\ Len(cs) >= 2
  /\ \E i \in 1..Len(cs) : cs[i].checkedInAt = Missing

\* the comparator b.checkedInAt.seconds - a.checkedInAt.seconds places c
\* before the first element it compares less than; the sort is stable
RECURSIVE InsertByCheckInDesc(_, _)
InsertByCheckInDesc(c, s) ==
  IF s = << >> THEN <<c>>
  ELSE IF Head(s).checkedInAt[1] - c.checkedInAt[1] < 0 THEN <<c>> \o s
       ELSE <<Head(s)>> \o InsertByCheckInDesc(c, Tail(s))

\* customersData.sort((a, b) => b.checkedInAt.seconds - a.checkedInAt.seconds)
RECURSIVE SortByCheckInDesc(_)
SortByCheckInDesc(cs) ==
  IF Len(cs) <= 1 THEN cs
  ELSE InsertByCheckInDesc(cs[Len(cs)],
                           SortByCheckInDesc(SubSeq(cs, 1, Len(cs) - 1)))

\* the payment fetch and the rest of the program are untouched
HistoryUnchanged ==
  /\ UNCHANGED <<customer, payments, purchases, now, pc, history, rentEntry,
                 phError>>
  /\ UNCHANGED notCustVars

\* rooms.filter(r => r.floor === selectedFloor)
FilteredRooms == SelectSeq(rooms, LAMBDA r : r.floor = selectedFloor)

\* the values the room dropdown offers: 'Choose a room' and the filtered rooms
RoomOptions == {""} \cup { FilteredRooms[i].id : i \in 1..Len(FilteredRooms) }

\* onChange of the room dropdown (enabled once a floor is selected):
\* setSelectedRoomId, then the effect calls fetchCustomers(selectedRoomId)
\* unless the value is ''
SelectRoom ==
  /\ ~loading
  /\ selectedFloor # ""
  /\ fcpc = "idle"
  /\ \E r \in RoomOptions \ {selectedRoomId} :
       /\ selectedRoomId' = r
       /\ IF r = "" THEN UNCHANGED <<fcpc, fcRoomId, fcError>>
                    ELSE fcpc' = "getCheckins" /\ fcRoomId' = r /\ fcError' = ""
  /\ UNCHANGED <<checkins, customers>>
  /\ HistoryUnchanged
  /\ UNCHANGED <<paymentHistory, selectedCustomer, shopPurchases, toasts>>

\* catch (error): console.error('Error fetching customers:', error),
\* toast.error('Failed to fetch customer details')
CustomersCatch(error) ==
  /\ toasts < MaxToasts
  /\ toasts' = toasts + 1
  /\ fcError' = error
  /\ fcpc' = "idle"
  /\ UNCHANGED <<customers, selectedCustomer, paymentHistory, shopPurchases>>

\* await getDocs(q) resolves and the rest of the try block runs; a throw of
\* the sort is caught by the same try
CustomersRead ==
  /\ fcpc = "getCheckins"
  /\ LET customersData == CustomersData(QueryCheckins(checkins, fcRoomId))
     IN  IF SortThrows(customersData)
         THEN CustomersCatch("TypeError")
         ELSE /\ customers' = SortByCheckInDesc(customersData)
              /\ selectedCustomer' = NoCustomer
              /\ paymentHistory' = << >>
              /\ shopPurchases' = << >>
              /\ fcpc' = "idle"
              /\ UNCHANGED <<fcError, toasts>>
  /\ UNCHANGED <<checkins, selectedRoomId, fcRoomId>>
  /\ HistoryUnchanged

\* await getDocs(q) rejects
CustomersReadFailed ==
  /\ fcpc = "getCheckins"
  /\ CustomersCatch("FirebaseError")
  /\ UNCHANGED <<checkins, selectedRoomId, fcRoomId>>
  /\ HistoryUnchanged

\* rooms documents of two rooms on floor 1, and the rooms state fetchRooms
\* builds from them
TwoRoomDocs ==
  << [id |-> RoomDocId(1), status |-> <<"available">>,
      roomNumber |-> <<101>>, floor |-> <<"1">>],
     [id |-> RoomDocId(2), status |-> <<"available">>,
      roomNumber |-> <<102>>, floor |-> <<"1">>] >>

TwoRooms ==
  << [id |-> RoomDocId(1), roomNumber |-> 101, floor |-> "1"],
     [id |-> RoomDocId(2), roomNumber |-> 102, floor |-> "1"] >>

\* fetchRooms has listed the two rooms and selected their floor
RoomsLoaded ==
  /\ roomDocs = TwoRoomDocs
  /\ rooms = TwoRooms
  /\ loading = FALSE
  /\ selectedFloor = "1"
  /\ frpc = "idle"
  /\ frError = ""

InitCustomers ==
  /\ customer = NoCustomer
  /\ purchases = << >>
  /\ InitView
  /\ RoomsLoaded
  /\ checkins \in UNION { StayStores(n) : n \in 0..MaxStays }
  /\ selectedRoomId = ""
  /\ customers = << >>
  /\ fcpc = "idle"
  /\ fcRoomId = ""
  /\ fcError = ""
  /\ ListIdle
  /\ CacheIdle
  /\ ManageIdle
  /\ EarlierIdle
  /\ BatchIdle

NextCustomers ==
  \/ SelectRoom
  \/ CustomersRead
  \/ CustomersReadFailed

SpecCustomers == InitCustomers /\ [][NextCustomers]_vars

(* ------------------- BookedRooms: the rooms and floors ------------------ *)
\* most rooms documents in the store
MaxRooms == 2

\* rooms documents whose roomNumber and floor may be missing, zero or empty
RoomDocs(i) ==
  [id : {RoomDocId(i)}, status : {<<"available">>},
   roomNumber : {Missing, <<0>>, <<101>>},
   floor : {Missing, <<"">>, <<"2">>}]

\* the stores of n such documents
RECURSIVE RoomStores(_)
RoomStores(n) ==
  IF n = 0 THEN { << >> }
  ELSE { Append(st, d) : st \in RoomStores(n - 1), d \in RoomDocs(n) }

\* mutant: every room is put on floor '1'
RoomOf_FloorOne(d) ==
  [id |-> d.id, roomNumber |-> OrNumber(d.roomNumber, 0), floor |-> "1"]

\* roomsList.push({ id, roomNumber: data.roomNumber || 0, floor: data.floor || '1' })
RoomOf(d) ==
  [id |-> d.id,
   roomNumber |-> OrNumber(d.roomNumber, 0),
   floor |-> OrString(d.floor, "1")]

\* roomsSnapshot.forEach(doc => roomsList.push(...))
RoomsList(docs) == [i \in 1..Len(docs) |-> RoomOf(docs[i])]

\* parseInt of a floor: NaN (no value) unless the string starts with digits
NaN == << >>

\* mutant: the floors are compared as strings ('1' < '10' < '2')
ParseInt_AsString(str) ==
  IF str = "1" THEN <<1>>
  ELSE IF str = "10" THEN <<2>>
  ELSE IF str = "2" THEN <<3>>
  ELSE NaN

ParseInt(str) ==
  IF str = "1" THEN <<1>>
  ELSE IF str = "2" THEN <<2>>
  ELSE IF str = "10" THEN <<10>>
  ELSE NaN

\* the comparator of the rooms sort returns a negative number: floorDiff when
\* it is not 0 (NaN is not 0 and is returned, and sort reads NaN as 0),
\* the difference of the room numbers otherwise
RoomBefore(a, b) ==
  LET fa == ParseInt(a.floor)
      fb == ParseInt(b.floor)
  IN  IF fa = NaN \/ fb = NaN THEN FALSE
      ELSE IF fa[1] - fb[1] # 0 THEN fa[1] - fb[1] < 0
           ELSE a.roomNumber - b.roomNumber < 0

RECURSIVE InsertRoom(_, _)
InsertRoom(r, s) ==
  IF s = << >> THEN <<r>>
  ELSE IF RoomBefore(r, Head(s)) THEN <<r>> \o s
       ELSE <<Head(s)>> \o InsertRoom(r, Tail(s))

\* roomsList.sort(...): stable
RECURSIVE SortRooms(_)
SortRooms(rs) ==
  IF Len(rs) <= 1 THEN rs
  ELSE InsertRoom(rs[Len(rs)], SortRooms(SubSeq(rs, 1, Len(rs) - 1)))

\* [...new Set(rooms.map(r => r.floor))]
UniqueFloors == { rooms[i].floor : i \in 1..Len(rooms) }

\* new Set(rs.map(r => r.floor)) spread into an array: each floor once, in
\* the order of its first room
RECURSIVE FloorsOf(_)
FloorsOf(rs) ==
  IF rs = << >> THEN << >>
  ELSE LET before == FloorsOf(SubSeq(rs, 1, Len(rs) - 1))
           f == rs[Len(rs)].floor
       IN  IF \E i \in 1..Len(before) : before[i] = f THEN before
           ELSE Append(before, f)

\* parseInt(a) - parseInt(b) < 0 (NaN is read as 0 by sort)
FloorBefore(a, b) ==
  LET fa == ParseInt(a)
      fb == ParseInt(b)
  IN  IF fa = NaN \/ fb = NaN THEN FALSE ELSE fa[1] - fb[1] < 0

RECURSIVE InsertFloor(_, _)
InsertFloor(f, s) ==
  IF s = << >> THEN <<f>>
  ELSE IF FloorBefore(f, Head(s)) THEN <<f>> \o s
       ELSE <<Head(s)>> \o InsertFloor(f, Tail(s))

\* floors.sort((a, b) => parseInt(a) - parseInt(b)): stable
RECURSIVE SortFloors(_)
SortFloors(fs) ==
  IF Len(fs) <= 1 THEN fs
  ELSE InsertFloor(fs[Len(fs)], SortFloors(SubSeq(fs, 1, Len(fs) - 1)))

\* uniqueFloors: the options of the floor dropdown
UniqueFloorsOf(rs) == SortFloors(FloorsOf(rs))

\* filteredRooms for a floor: the options of the room dropdown
FilteredRoomsOf(rs, floor) == SelectSeq(rs, LAMBDA r : r.floor = floor)

\* the payment view, the stays and the rest of the program are untouched
OnlyRoomsChange ==
  UNCHANGED <<customer, payments, purchases, now, pc, history, rentEntry,
              paymentHistory, selectedCustomer, shopPurchases, phError,
              checkins, customers, fcpc, fcRoomId, fcError, listVars,
              cacheVars, manageVars, earlierVars, batchVars>>

\* await getDocs(roomsCollection) resolves: the rest of the try block, then
\* finally
RoomsRead ==
  /\ frpc = "getRooms"
  /\ LET roomsList == SortRooms(RoomsList(roomDocs))
     IN  /\ rooms' = roomsList
         /\ selectedFloor' =
              IF Len(roomsList) > 0 THEN roomsList[1].floor ELSE selectedFloor
  /\ loading' = FALSE
  /\ frpc' = "idle"
  /\ UNCHANGED <<roomDocs, selectedRoomId, toasts, frError>>
  /\ OnlyRoomsChange

\* mutant: no finally block
RoomsReadFailed_NoFinally ==
  /\ frpc = "getRooms"
  /\ toasts < MaxToasts
  /\ toasts' = toasts + 1
  /\ frError' = "FirebaseError"
  /\ frpc' = "idle"
  /\ UNCHANGED <<roomDocs, rooms, loading, selectedFloor, selectedRoomId>>
  /\ OnlyRoomsChange

\* await getDocs(roomsCollection) rejects: catch, then finally
RoomsReadFailed ==
  /\ frpc = "getRooms"
  /\ toasts < MaxToasts
  /\ toasts' = toasts + 1
  /\ frError' = "FirebaseError"
  /\ loading' = FALSE
  /\ frpc' = "idle"
  /\ UNCHANGED <<roomDocs, rooms, selectedFloor, selectedRoomId>>
  /\ OnlyRoomsChange

\* onChange of the floor dropdown: setSelectedFloor, setSelectedRoomId('')
SelectFloor ==
  /\ ~loading
  /\ \E f \in (UniqueFloors \cup {""}) \ {selectedFloor} : selectedFloor' = f
  /\ selectedRoomId' = ""
  /\ UNCHANGED <<roomDocs, rooms, loading, frpc, frError, toasts>>
  /\ OnlyRoomsChange

\* the first render is done and the mount effect has called fetchRooms, which
\* waits for the store
RoomsLoading ==
  /\ rooms = << >>
  /\ loading = TRUE
  /\ selectedFloor = ""
  /\ frpc = "getRooms"
  /\ frError = ""

\* one checked-out stay of room-1 whose guest name, phone number and rent may
\* be missing, empty or zero
StaysWithOptionalFields ==
  [id : {StayDocId(1)}, roomId : {RoomDocId(1)}, isCheckedOut : {TRUE},
   checkedInAt : {<<1>>},
   guestName : {Missing, <<"">>, <<"Asha">>},
   phoneNumber : {Missing, <<"">>, <<"98">>},
   rent : {Missing, <<0>>, <<1>>}]

\* The defaults: documents with optional fields, fetched by fetchRooms and
\* fetchCustomers; every read succeeds.
InitDefaults ==
  /\ customer = NoCustomer
  /\ purchases = << >>
  /\ InitView
  /\ roomDocs \in UNION { RoomStores(n) : n \in 0..MaxRooms }
  /\ RoomsLoading
  /\ checkins \in { <<d>> : d \in StaysWithOptionalFields }
  /\ selectedRoomId = ""
  /\ customers = << >>
  /\ fcpc = "idle"
  /\ fcRoomId = ""
  /\ fcError = ""
  /\ ListIdle
  /\ CacheIdle
  /\ ManageIdle
  /\ EarlierIdle
  /\ BatchIdle

NextDefaults ==
  \/ RoomsRead
  \/ SelectFloor
  \/ SelectRoom
  \/ CustomersRead

SpecDefaults == InitDefaults /\ [][NextDefaults]_vars

(* --------------- BookedRooms: the stays and their payments -------------- *)
\* onClick={() => fetchPaymentHistory(customer)} on a button of the list,
\* which is rendered while a room is selected: up to the first await
ClickListedCustomer ==
  /\ ~loading
  /\ selectedRoomId # ""
  /\ pc = "idle"
  /\ \E i \in 1..Len(customers) : customer' = customers[i]
  /\ pc' = "getPayments"
  /\ phError' = ""
  /\ UNCHANGED <<payments, purchases, now, history, rentEntry,
                 paymentHistory, selectedCustomer, shopPurchases, toasts>>
  /\ UNCHANGED otherVars

\* two checked-out stays of room-1 and one of room-2
ViewStays ==
  << [id |-> StayDocId(1), roomId |-> RoomDocId(1), isCheckedOut |-> TRUE,
      checkedInAt |-> <<1>>, guestName |-> <<"Asha">>,
      phoneNumber |-> <<"98">>, rent |-> <<1>>],
     [id |-> StayDocId(2), roomId |-> RoomDocId(1), isCheckedOut |-> TRUE,
      checkedInAt |-> <<2>>, guestName |-> <<"Asha">>,
      phoneNumber |-> <<"98">>, rent |-> <<1>>],
     [id |-> StayDocId(3), roomId |-> RoomDocId(2), isCheckedOut |-> TRUE,
      checkedInAt |-> <<1>>, guestName |-> <<"Asha">>,
      phoneNumber |-> <<"98">>, rent |-> <<1>>] >>

\* The whole view: rooms, stays and payment histories, each fetch free to
\* succeed or fail while the other is in flight.
InitBookedRooms ==
  /\ customer = NoCustomer
  /\ purchases \in PurchaseStores
  /\ InitView
  /\ RoomsLoaded
  /\ checkins = ViewStays
  /\ selectedRoomId = ""
  /\ customers = << >>
  /\ fcpc = "idle"
  /\ fcRoomId = ""
  /\ fcError = ""
  /\ ListIdle
  /\ CacheIdle
  /\ ManageIdle
  /\ EarlierIdle
  /\ BatchIdle

NextBookedRooms ==
  \/ SelectFloor
  \/ SelectRoom
  \/ CustomersRead
  \/ CustomersReadFailed
  \/ ClickListedCustomer
  \/ PaymentsRead
  \/ PaymentsReadFailed
  \/ PurchasesRead
  \/ PurchasesReadFailed

SpecBookedRooms == InitBookedRooms /\ [][NextBookedRooms]_vars

(* ------------------------------- RoomList ------------------------------- *)
\* the newer version: roomNumber: data.roomNumber ?? 0, floor: data.floor ?? '1',
\* status: data.status ?? 'available' (only a missing field takes the default)
ListedRoomOf(d) ==
  [id |-> d.id,
   status |-> IF d.status = Missing THEN <<"available">> ELSE d.status,
   roomNumber |-> IF d.roomNumber = Missing THEN <<0>> ELSE d.roomNumber,
   floor |-> IF d.floor = Missing THEN <<"1">> ELSE d.floor]

\* the older version: { id: doc.id, ...doc.data() }, fields missing or not
LegacyRoomOf(d) == d

\* (a.roomNumber || 0) - (b.roomNumber || 0) < 0; undefined || 0 is 0
NumberBefore(a, b) ==
  LET na == IF a.roomNumber = Missing THEN 0 ELSE a.roomNumber[1]
      nb == IF b.roomNumber = Missing THEN 0 ELSE b.roomNumber[1]
  IN  na - nb < 0

RECURSIVE InsertByNumber(_, _)
InsertByNumber(r, s) ==
  IF s = << >> THEN <<r>>
  ELSE IF NumberBefore(r, Head(s)) THEN <<r>> \o s
       ELSE <<Head(s)>> \o InsertByNumber(r, Tail(s))

\* roomList.sort(...): stable
RECURSIVE SortByNumber(_)
SortByNumber(rs) ==
  IF Len(rs) <= 1 THEN rs
  ELSE InsertByNumber(rs[Len(rs)], SortByNumber(SubSeq(rs, 1, Len(rs) - 1)))

\* the orders of a list
Reorderings(rs) ==
  { [i \in 1..Len(rs) |-> rs[f[i]]] :
      f \in { g \in [1..Len(rs) -> 1..Len(rs)] :
                \A i, j \in 1..Len(rs) : i # j => g[i] # g[j] } }

\* the older version sorts by a.roomNumber - b.roomNumber: with a room number
\* missing the comparator returns NaN, it is not a consistent comparator and
\* the resulting order is implementation-defined
LegacySortOutcomes(rs) ==
  IF \E i \in 1..Len(rs) : rs[i].roomNumber = Missing
  THEN Reorderings(rs)
  ELSE { SortByNumber(rs) }

\* the message of the rejected read
ReadErrorMessage == <<"Failed to fetch rooms">>

\* nothing but RoomList changes
OnlyListChanges ==
  UNCHANGED <<customer, payments, purchases, now, pc, history, rentEntry,
              paymentHistory, selectedCustomer, shopPurchases, phError,
              custVars, roomVars, cacheVars, manageVars, earlierVars,
              batchVars>>

\* newer version, await getDocs resolves: isMounted is the parameter, a copy
\* of the flag taken when fetchRooms was called; setState of an unmounted
\* component has no effect
ListRoomsRead ==
  /\ rlVersion = "part_001"
  /\ rlpc = "getRooms"
  /\ IF rlIsMounted /\ rlMounted
     THEN /\ rlRooms' = SortByNumber([i \in 1..Len(roomDocs) |->
                                        ListedRoomOf(roomDocs[i])])
          /\ rlLoading' = FALSE
     ELSE UNCHANGED <<rlRooms, rlLoading>>
  /\ rlpc' = "idle"
  /\ UNCHANGED <<rlVersion, rlError, rlMounted, rlIsMounted, rlLogged, toasts>>
  /\ OnlyListChanges

\* mutant: the catch block reads the store again
ListRoomsReadFailed_Retries ==
  /\ rlVersion = "part_001"
  /\ rlpc = "getRooms"
  /\ rlLogged' = "FirebaseError"
  /\ IF rlIsMounted
     THEN /\ toasts < MaxToasts
          /\ toasts' = toasts + 1
          /\ IF rlMounted
             THEN rlError' = ReadErrorMessage /\ rlLoading' = FALSE
             ELSE UNCHANGED <<rlError, rlLoading>>
     ELSE UNCHANGED <<toasts, rlError, rlLoading>>
  /\ rlpc' = "getRooms"
  /\ UNCHANGED <<rlVersion, rlRooms, rlMounted, rlIsMounted>>
  /\ OnlyListChanges

\* newer version, await getDocs rejects: the catch block of fetchRooms
ListRoomsReadFailed ==
  /\ rlVersion = "part_001"
  /\ rlpc = "getRooms"
  /\ rlLogged' = "FirebaseError"
  /\ IF rlIsMounted
     THEN /\ toasts < MaxToasts
          /\ toasts' = toasts + 1
          /\ IF rlMounted
             THEN rlError' = ReadErrorMessage /\ rlLoading' = FALSE
             ELSE UNCHANGED <<rlError, rlLoading>>
     ELSE UNCHANGED <<toasts, rlError, rlLoading>>
  /\ rlpc' = "idle"
  /\ UNCHANGED <<rlVersion, rlRooms, rlMounted, rlIsMounted>>
  /\ OnlyListChanges

\* newer version, 'Try Again' of the error state UI (error && !loading):
\* setLoading(true); fetchRooms() up to the await, isMounted defaulting to true
TryAgain ==
  /\ rlVersion = "part_001"
  /\ rlMounted
  /\ rlError # NoError /\ ~rlLoading
  /\ rlpc = "idle"
  /\ rlLoading' = TRUE
  /\ rlError' = NoError
  /\ rlIsMounted' = TRUE
  /\ rlLogged' = ""
  /\ rlpc' = "getRooms"
  /\ UNCHANGED <<rlVersion, rlRooms, rlMounted, toasts>>
  /\ OnlyListChanges

\* the user leaves the screen: the effect's cleanup sets its own isMounted
Unmount ==
  /\ rlMounted
  /\ rlMounted' = FALSE
  /\ UNCHANGED <<rlVersion, rlRooms, rlLoading, rlError, rlpc, rlIsMounted,
                 rlLogged, toasts>>
  /\ OnlyListChanges

\* older version, await getDocs resolves
LegacyRoomsRead ==
  /\ rlVersion = "part_000"
  /\ rlpc = "getRooms"
  /\ IF rlMounted
     THEN /\ rlRooms' \in LegacySortOutcomes([i \in 1..Len(roomDocs) |->
                                                LegacyRoomOf(roomDocs[i])])
          /\ rlLoading' = FALSE
     ELSE UNCHANGED <<rlRooms, rlLoading>>
  /\ rlpc' = "idle"
  /\ UNCHANGED <<rlVersion, rlError, rlMounted, rlIsMounted, rlLogged, toasts>>
  /\ OnlyListChanges

\* older version, await getDocs rejects
LegacyRoomsReadFailed ==
  /\ rlVersion = "part_000"
  /\ rlpc = "getRooms"
  /\ toasts < MaxToasts
  /\ toasts' = toasts + 1
  /\ IF rlMounted THEN rlLoading' = FALSE ELSE UNCHANGED rlLoading
  /\ rlpc' = "idle"
  /\ UNCHANGED <<rlVersion, rlRooms, rlError, rlMounted, rlIsMounted,
                 rlLogged>>
  /\ OnlyListChanges

\* the first render is done and the mount effect has called fetchRooms, which
\* waits for the store (the newer version passes isMounted, then true)
ListLoading ==
  /\ rlVersion \in {"part_001", "part_000"}
  /\ rlRooms = << >>
  /\ rlLoading = TRUE
  /\ rlError = NoError
  /\ rlMounted = TRUE
  /\ rlpc = "getRooms"
  /\ rlIsMounted = TRUE
  /\ rlLogged = ""

\* The screens that fetch rooms: either BookedRooms or RoomList has just been
\* opened.
InitScreens ==
  /\ customer = NoCustomer
  /\ purchases = << >>
  /\ InitView
  /\ roomDocs \in UNION { RoomStores(n) : n \in 0..MaxRooms }
  /\ checkins = ViewStays
  /\ selectedRoomId = ""
  /\ customers = << >>
  /\ fcpc = "idle"
  /\ fcRoomId = ""
  /\ fcError = ""
  /\ CacheIdle
  /\ ManageIdle
  /\ EarlierIdle
  /\ BatchIdle
  /\ \/ RoomsLoading /\ ListIdle
     \/ /\ rooms = << >> /\ loading = FALSE /\ selectedFloor = ""
        /\ frpc = "idle" /\ frError = ""
        /\ ListLoading

NextScreens ==
  \/ RoomsRead
  \/ RoomsReadFailed
  \/ SelectFloor
  \/ SelectRoom
  \/ CustomersRead
  \/ CustomersReadFailed
  \/ ListRoomsRead
  \/ ListRoomsReadFailed
  \/ TryAgain
  \/ Unmount
  \/ LegacyRoomsRead
  \/ LegacyRoomsReadFailed

SpecScreens == InitScreens /\ [][NextScreens]_vars

\* a pending getDocs promise settles, and the event loop then runs the rest of
\* the function that awaits it
StoreReplies ==
  \/ RoomsRead
  \/ RoomsReadFailed
  \/ ListRoomsRead
  \/ ListRoomsReadFailed
  \/ LegacyRoomsRead
  \/ LegacyRoomsReadFailed

\* The rooms fetches alone, each store reply arriving in the end.
NextRoomFetches ==
  \/ RoomsRead
  \/ RoomsReadFailed
  \/ ListRoomsRead
  \/ ListRoomsReadFailed
  \/ TryAgain
  \/ Unmount
  \/ LegacyRoomsRead
  \/ LegacyRoomsReadFailed

FairSpecRoomFetches ==
  InitScreens /\ [][NextRoomFetches]_vars /\ WF_vars(StoreReplies)

(* ------------------- the payment fetch and the clock -------------------- *)
\* the clock is followed up to MaxNow
MaxNow == 4
\* most payment documents of the stay that is looked up while time passes
MaxClockEntries == 1

\* time passes while the history view is open
Tick ==
  /\ customer.isCheckedOut
  /\ now < MaxNow
  /\ now' = now + 1
  /\ UNCHANGED <<customer, payments, purchases, pc, history, rentEntry,
                 paymentHistory, selectedCustomer, shopPurchases, toasts,
                 phError>>
  /\ UNCHANGED otherVars

AddClockPayment ==
  /\ Len(payments) < MaxClockEntries
  /\ \E d \in PlainPaymentDocs(Len(payments) + 1, now) : AddPaymentFrom(d)

\* A stay with few payment documents that, once checked out, is looked up
\* again and again while time passes.
InitClock ==
  /\ customer \in Customers
  /\ purchases = << >>
  /\ InitView
  /\ OthersIdle

NextClock ==
  \/ AddClockPayment
  \/ CheckOut
  \/ ClickCustomer
  \/ PaymentsRead
  \/ PurchasesRead
  \/ Tick

SpecClock == InitClock /\ [][NextClock]_vars

(* ------------------------------ DataService ----------------------------- *)
\* private static CACHE_DURATION = 30000
CACHE_DURATION == 30000

\* the clock is followed for MaxClockTicks steps of half a cache duration
MaxClockTicks == 3
\* most store reads in flight at once
MaxInFlight == 2

\* what the collections may hold
StoreContents == {"a", "b"}

\* isCacheValid: Date.now() - timestamp < this.CACHE_DURATION
IsCacheValid(timestamp) == clockMs - timestamp < CACHE_DURATION

\* getFromCache: the data of a valid entry, or null (no value)
GetFromCache(key) ==
  IF cache[key] # << >> /\ IsCacheValid(cache[key][1].timestamp)
  THEN <<cache[key][1].data>>
  ELSE << >>

\* the payment view, the rooms and the lists are untouched
OnlyCacheChanges ==
  UNCHANGED <<customer, payments, purchases, now, pc, history, rentEntry,
              paymentHistory, selectedCustomer, shopPurchases, toasts, phError,
              custVars, roomVars, listVars, manageVars, earlierVars,
              batchVars>>

\* getRoomsWithBookings / getAllPayments up to the return of the cached value
\* or to the await of the store reads
CachedCall(key) ==
  LET cached == GetFromCache(key)
  IN  /\ IF cached # << >>
         THEN /\ lastCall' = [key |-> key, from |-> "cache", data |-> cached[1],
                              turn |-> 1 - lastCall.turn]
              /\ UNCHANGED reads
         ELSE /\ Len(reads) < MaxInFlight
              /\ reads' = Append(reads, [key |-> key, snapshot |-> storeData])
              /\ lastCall' = [key |-> key, from |-> "store", data |-> "",
                              turn |-> 1 - lastCall.turn]
      /\ cleared' = [cleared EXCEPT ![key] = FALSE]
      /\ UNCHANGED <<cache, clockMs, storeData>>
      /\ OnlyCacheChanges

GetRoomsWithBookings == CachedCall("rooms_with_bookings_{}")

GetAllPayments == CachedCall("all_payments_{}")

\* the reads in flight but the i-th
WithoutRead(i) == SubSeq(reads, 1, i - 1) \o SubSeq(reads, i + 1, Len(reads))

\* the awaited store reads resolve, with what the store held when they were
\* issued or with what it holds now: setCache(cacheKey, result), return result
ReadsResolve ==
  \E i \in 1..Len(reads) :
    \E data \in {reads[i].snapshot, storeData} :
      /\ cache' = [cache EXCEPT ![reads[i].key] =
                     <<[data |-> data, timestamp |-> clockMs]>>]
      /\ reads' = WithoutRead(i)
      /\ UNCHANGED <<clockMs, storeData, lastCall, cleared>>
      /\ OnlyCacheChanges

\* an awaited store read rejects: console.error, throw error
ReadsReject ==
  \E i \in 1..Len(reads) :
    /\ reads' = WithoutRead(i)
    /\ UNCHANGED <<cache, clockMs, storeData, lastCall, cleared>>
    /\ OnlyCacheChanges

\* clearCache: this.cache.clear()
ClearCache ==
  /\ cache' = [k \in CacheKeys |-> << >>]
  /\ cleared' = [k \in CacheKeys |-> TRUE]
  /\ UNCHANGED <<clockMs, storeData, reads, lastCall>>
  /\ OnlyCacheChanges

\* half a cache duration passes
ClockAdvances ==
  /\ clockMs < MaxClockTicks * (CACHE_DURATION \div 2)
  /\ clockMs' = clockMs + (CACHE_DURATION \div 2)
  /\ UNCHANGED <<cache, storeData, reads, lastCall, cleared>>
  /\ OnlyCacheChanges

\* a screen writes to the store (updateDoc, deleteDoc)
StoreWritten ==
  /\ \E d \in StoreContents \ {storeData} : storeData' = d
  /\ UNCHANGED <<cache, clockMs, reads, lastCall, cleared>>
  /\ OnlyCacheChanges

InitCache ==
  /\ customer = NoCustomer
  /\ purchases = << >>
  /\ InitView
  /\ CustomersIdle
  /\ RoomsIdle
  /\ ListIdle
  /\ CacheIdle
  /\ ManageIdle
  /\ EarlierIdle
  /\ BatchIdle

NextCache ==
  \/ GetRoomsWithBookings
  \/ GetAllPayments
  \/ ReadsResolve
  \/ ReadsReject
  \/ ClearCache
  \/ ClockAdvances
  \/ StoreWritten

SpecCache == InitCache /\ [][NextCache]_vars

(* ---------------------- BookedRooms: the room order --------------------- *)
\* most rooms documents when their order is looked at
MaxSortedRooms == 3

\* rooms documents on floors 1 (by default), 2 and 10, numbered 101 or 102
SortedRoomDocs(i) ==
  [id : {RoomDocId(i)}, status : {<<"available">>},
   roomNumber : {<<101>>, <<102>>},
   floor : {Missing, <<"2">>, <<"10">>}]

RECURSIVE SortedRoomStores(_)
SortedRoomStores(n) ==
  IF n = 0 THEN { << >> }
  ELSE { Append(st, d) : st \in SortedRoomStores(n - 1), d \in SortedRoomDocs(n) }

\* The rooms of several floors are fetched and a floor is chosen.
InitFloors ==
  /\ customer = NoCustomer
  /\ purchases = << >>
  /\ InitView
  /\ roomDocs \in UNION { SortedRoomStores(n) : n \in 0..MaxSortedRooms }
  /\ RoomsLoading
  /\ CustomersIdle
  /\ ListIdle
  /\ CacheIdle
  /\ ManageIdle
  /\ EarlierIdle
  /\ BatchIdle

NextFloors ==
  \/ RoomsRead
  \/ SelectFloor

SpecFloors == InitFloors /\ [][NextFloors]_vars

(* ------------------------ RoomList: room management --------------------- *)
\* most rooms documents when rooms are managed
MaxManagedRooms == 2

\* most handler calls waiting for the store at once
MaxCalls == 2

\* rooms documents with a status, or without one
ManagedRoomDocs(i) ==
  [id : {RoomDocId(i)}, status : {Missing, <<"available">>, <<"occupied">>},
   roomNumber : {<<i>>}, floor : {<<"1">>}]

RECURSIVE ManagedRoomStores(_)
ManagedRoomStores(n) ==
  IF n = 0 THEN { << >> }
  ELSE { Append(st, d) : st \in ManagedRoomStores(n - 1),
                         d \in ManagedRoomDocs(n) }

\* the room cards are on screen: not the spinner and, in the newer version,
\* not the error state UI
CardsShown ==
  /\ rlMounted
  /\ ~rlLoading
  /\ rlVersion = "part_001" => rlError = NoError

\* nothing but the modal, the rooms list and the store's rooms changes
OnlyManagementChanges ==
  UNCHANGED <<customer, payments, purchases, now, pc, history, rentEntry,
              paymentHistory, selectedCustomer, shopPurchases, phError,
              custVars, rooms, loading, selectedFloor, frpc, frError,
              rlVersion, rlLoading, rlError, rlMounted, rlpc, rlIsMounted,
              rlLogged, cacheVars, earlierVars, batchVars>>

\* mutant: the delete button is on every card
OpenDeleteModal_AnyRoom ==
  /\ CardsShown
  /\ ~confirmModal.show
  /\ \E i \in 1..Len(rlRooms) :
       confirmModal' = [show |-> TRUE, roomId |-> rlRooms[i].id,
                        action |-> "delete", newStatus |-> Missing,
                        newPaymentStatus |-> Missing]
  /\ UNCHANGED <<calls, issued, successToasts, toasts, rlRooms, roomDocs>>
  /\ OnlyManagementChanges

\* the delete button of a card, rendered when room.status !== 'occupied':
\* setConfirmModal({ show: true, roomId: room.id, action: 'delete' }); the
\* open modal lies over the cards
OpenDeleteModal ==
  /\ CardsShown
  /\ ~confirmModal.show
  /\ \E i \in 1..Len(rlRooms) :
       /\ rlRooms[i].status # <<"occupied">>
       /\ confirmModal' = [show |-> TRUE, roomId |-> rlRooms[i].id,
                           action |-> "delete", newStatus |-> Missing,
                           newPaymentStatus |-> Missing]
  /\ UNCHANGED <<calls, issued, successToasts, toasts, rlRooms, roomDocs>>
  /\ OnlyManagementChanges

\* 'Cancel' of the modal
CancelModal ==
  /\ CardsShown
  /\ confirmModal.show
  /\ confirmModal' = ClosedModal
  /\ UNCHANGED <<calls, issued, successToasts, toasts, rlRooms, roomDocs>>
  /\ OnlyManagementChanges

\* a handler sends its command and waits: it keeps the rooms and the
\* confirmModal of the render it was called in
Awaits(kind) ==
  /\ Len(calls) < MaxCalls
  /\ calls' = Append(calls, [kind |-> kind, rooms |-> rlRooms,
                             confirmModal |-> confirmModal])
  /\ issued' = issued \cup {[kind |-> kind, roomId |-> confirmModal.roomId]}

\* handleDeleteRoom up to await deleteDoc
HandleDeleteRoom ==
  IF confirmModal.roomId = "" THEN UNCHANGED <<calls, issued>>
  ELSE Awaits("delete")

\* handleStatusChange up to await updateDoc
HandleStatusChange ==
  IF confirmModal.roomId = "" \/ confirmModal.newStatus \in {Missing, <<"">>}
  THEN UNCHANGED <<calls, issued>>
  ELSE Awaits("status")

\* handlePaymentStatusChange up to await updateDoc
HandlePaymentStatusChange ==
  IF confirmModal.roomId = "" \/ confirmModal.newPaymentStatus = Missing
  THEN UNCHANGED <<calls, issued>>
  ELSE Awaits("payment")

\* 'Confirm' of the modal: the handler of confirmModal.action
ConfirmModal ==
  /\ CardsShown
  /\ confirmModal.show
  /\ IF confirmModal.action = "delete" THEN HandleDeleteRoom
     ELSE IF confirmModal.action = "payment" THEN HandlePaymentStatusChange
     ELSE HandleStatusChange
  /\ UNCHANGED <<confirmModal, successToasts, toasts, rlRooms, roomDocs>>
  /\ OnlyManagementChanges

\* the rooms list a handler sets once the store has answered: computed from
\* the rooms of the render the handler was called in
RoomsAfter(c) ==
  LET id == c.confirmModal.roomId
  IN  IF c.kind = "delete"
      THEN SelectSeq(c.rooms, LAMBDA r : r.id # id)
      ELSE IF c.kind = "status"
      THEN [i \in 1..Len(c.rooms) |->
              IF c.rooms[i].id = id
              THEN [c.rooms[i] EXCEPT !.status = c.confirmModal.newStatus]
              ELSE c.rooms[i]]
      ELSE c.rooms

\* what the store holds once it has carried a command out
StoreAfter(c) ==
  LET id == c.confirmModal.roomId
  IN  IF c.kind = "delete"
      THEN SelectSeq(roomDocs, LAMBDA d : d.id # id)
      ELSE IF c.kind = "status"
      THEN [i \in 1..Len(roomDocs) |->
              IF roomDocs[i].id = id
              THEN [roomDocs[i] EXCEPT !.status = c.confirmModal.newStatus]
              ELSE roomDocs[i]]
      ELSE roomDocs

\* the calls in flight without the i-th
WithoutCall(i) == SubSeq(calls, 1, i - 1) \o SubSeq(calls, i + 1, Len(calls))

\* await deleteDoc / updateDoc resolves: setRooms, toast.success,
\* setConfirmModal({ show: false, roomId: null, action: null })
CommandDone ==
  /\ \E i \in 1..Len(calls) :
       /\ roomDocs' = StoreAfter(calls[i])
       /\ IF rlMounted
          THEN /\ rlRooms' = RoomsAfter(calls[i])
               /\ confirmModal' = ClosedModal
          ELSE UNCHANGED <<rlRooms, confirmModal>>
       /\ calls' = WithoutCall(i)
  /\ successToasts < MaxToasts
  /\ successToasts' = successToasts + 1
  /\ UNCHANGED <<issued, toasts>>
  /\ OnlyManagementChanges

\* await deleteDoc / updateDoc rejects: the catch block, toast.error
CommandFailed ==
  /\ \E i \in 1..Len(calls) : calls' = WithoutCall(i)
  /\ toasts < MaxToasts
  /\ toasts' = toasts + 1
  /\ UNCHANGED <<confirmModal, issued, successToasts, rlRooms, roomDocs>>
  /\ OnlyManagementChanges

\* RoomList has just been opened on a store of rooms.
InitManagement ==
  /\ customer = NoCustomer
  /\ purchases = << >>
  /\ InitView
  /\ CustomersIdle
  /\ roomDocs \in UNION { ManagedRoomStores(n) : n \in 0..MaxManagedRooms }
  /\ rooms = << >> /\ loading = FALSE /\ selectedFloor = ""
  /\ frpc = "idle" /\ frError = ""
  /\ ListLoading
  /\ CacheIdle
  /\ ManageIdle
  /\ EarlierIdle
  /\ BatchIdle

\* what the user does on the screen
UserActs ==
  \/ TryAgain
  \/ OpenDeleteModal
  \/ CancelModal
  \/ ConfirmModal

\* what the store's answers set off
StoreAnswers ==
  \/ ListRoomsRead
  \/ ListRoomsReadFailed
  \/ LegacyRoomsRead
  \/ LegacyRoomsReadFailed
  \/ CommandDone
  \/ CommandFailed

NextManagement == UserActs \/ StoreAnswers

SpecManagement == InitManagement /\ [][NextManagement]_vars

\* the user goes on using the screen and the store goes on answering
FairSpecManagement ==
  /\ InitManagement
  /\ [][NextManagement]_vars
  /\ WF_vars(StoreAnswers)
  /\ SF_vars(OpenDeleteModal)
  /\ SF_vars(ConfirmModal)

(* ------------------- BookedRooms: calls that overlap -------------------- *)
\* most calls of one function a later call has overtaken
MaxEarlier == 1

\* two checked-out stays of room-1 and one of room-2, each with its own rent
GuestStays ==
  << [id |-> StayDocId(1), roomId |-> RoomDocId(1), isCheckedOut |-> TRUE,
      checkedInAt |-> <<1>>, guestName |-> <<"Asha">>,
      phoneNumber |-> <<"98">>, rent |-> <<1>>],
     [id |-> StayDocId(2), roomId |-> RoomDocId(1), isCheckedOut |-> TRUE,
      checkedInAt |-> <<2>>, guestName |-> <<"Ravi">>,
      phoneNumber |-> <<"97">>, rent |-> <<2>>],
     [id |-> StayDocId(3), roomId |-> RoomDocId(2), isCheckedOut |-> TRUE,
      checkedInAt |-> <<1>>, guestName |-> <<"Mira">>,
      phoneNumber |-> <<"96">>, rent |-> <<3>>] >>

\* a shop purchase of the first stay and one of the third
GuestPurchases ==
  << [id |-> "shop-1", checkinId |-> StayDocId(1), amount |-> 2],
     [id |-> "shop-2", checkinId |-> StayDocId(3), amount |-> 3] >>

\* a sequence without its i-th element
Without(s, i) == SubSeq(s, 1, i - 1) \o SubSeq(s, i + 1, Len(s))

\* nothing but the stays list, the payment view and the calls in flight changes
OnlyStaysViewChanges ==
  UNCHANGED <<payments, purchases, now, checkins, roomVars, listVars,
              cacheVars, manageVars, batchVars>>

\* onChange of the room dropdown while a fetchCustomers call is in flight:
\* the effect calls fetchCustomers(selectedRoomId) again, and the earlier call
\* goes on
SelectRoomWhileFetching ==
  /\ ~loading
  /\ selectedFloor # ""
  /\ fcpc = "getCheckins"
  /\ Len(fcEarlier) < MaxEarlier
  /\ \E r \in RoomOptions \ {selectedRoomId, ""} :
       /\ selectedRoomId' = r
       /\ fcRoomId' = r
  /\ fcEarlier' = Append(fcEarlier, fcRoomId)
  /\ fcError' = ""
  /\ UNCHANGED <<customer, pc, history, rentEntry, phError, phEarlier,
                 customers, fcpc, paymentHistory, selectedCustomer,
                 shopPurchases, toasts>>
  /\ OnlyStaysViewChanges

\* await getDocs(q) of an earlier fetchCustomers call resolves and the rest of
\* its try block runs
EarlierCustomersRead ==
  /\ \E i \in 1..Len(fcEarlier) :
       /\ fcEarlier' = Without(fcEarlier, i)
       /\ LET customersData ==
                CustomersData(QueryCheckins(checkins, fcEarlier[i]))
          IN  IF SortThrows(customersData)
              THEN /\ toasts < MaxToasts
                   /\ toasts' = toasts + 1
                   /\ fcError' = "TypeError"
                   /\ UNCHANGED <<customers, selectedCustomer, paymentHistory,
                                  shopPurchases>>
              ELSE /\ customers' = SortByCheckInDesc(customersData)
                   /\ selectedCustomer' = NoCustomer
                   /\ paymentHistory' = << >>
                   /\ shopPurchases' = << >>
                   /\ UNCHANGED <<fcError, toasts>>
  /\ UNCHANGED <<customer, pc, history, rentEntry, phError, phEarlier,
                 selectedRoomId, fcpc, fcRoomId>>
  /\ OnlyStaysViewChanges

\* await getDocs(q) of an earlier fetchCustomers call rejects: its catch block
EarlierCustomersReadFailed ==
  /\ \E i \in 1..Len(fcEarlier) : fcEarlier' = Without(fcEarlier, i)
  /\ toasts < MaxToasts
  /\ toasts' = toasts + 1
  /\ fcError' = "FirebaseError"
  /\ UNCHANGED <<customer, pc, history, rentEntry, phError, phEarlier,
                 selectedRoomId, customers, fcpc, fcRoomId, paymentHistory,
                 selectedCustomer, shopPurchases>>
  /\ OnlyStaysViewChanges

\* a button of the list is clicked while a fetchPaymentHistory call is in
\* flight: a second call starts, and the earlier call goes on
ClickListedCustomerWhileFetching ==
  /\ ~loading
  /\ selectedRoomId # ""
  /\ pc # "idle"
  /\ Len(phEarlier) < MaxEarlier
  /\ \E i \in 1..Len(customers) : customer' = customers[i]
  /\ phEarlier' = Append(phEarlier, [customer |-> customer, pc |-> pc,
                                     history |-> history,
                                     rentEntry |-> rentEntry])
  /\ pc' = "getPayments"
  /\ history' = << >>
  /\ rentEntry' = RentEntry(NoCustomer, 0)
  /\ phError' = ""
  /\ UNCHANGED <<custVars, fcEarlier, paymentHistory, selectedCustomer,
                 shopPurchases, toasts>>
  /\ OnlyStaysViewChanges

\* await getDocs(q) of an earlier fetchPaymentHistory call resolves
EarlierPaymentsRead ==
  /\ \E i \in 1..Len(phEarlier) :
       /\ phEarlier[i].pc = "getPayments"
       /\ phEarlier' =
            [phEarlier EXCEPT ![i] =
               [customer |-> phEarlier[i].customer,
                pc |-> "getPurchases",
                history |-> OrderByTimestampAsc(payments),
                rentEntry |-> RentEntry(phEarlier[i].customer, now)]]
  /\ UNCHANGED <<customer, pc, history, rentEntry, phError, custVars,
                 fcEarlier, paymentHistory, selectedCustomer, shopPurchases,
                 toasts>>
  /\ OnlyStaysViewChanges

\* await getPurchasesByCheckin of an earlier fetchPaymentHistory call
\* resolves: the rest of its try block
EarlierPurchasesRead ==
  /\ \E i \in 1..Len(phEarlier) :
       LET c == phEarlier[i]
       IN  /\ c.pc = "getPurchases"
           /\ shopPurchases' = GetPurchasesByCheckin(purchases, c.customer.id)
           /\ paymentHistory' =
                FullHistory(c.rentEntry,
                            AdvanceEntry(c.customer, c.history, now), c.history)
           /\ selectedCustomer' = c.customer
           /\ phEarlier' = Without(phEarlier, i)
  /\ UNCHANGED <<customer, pc, history, rentEntry, phError, custVars,
                 fcEarlier, toasts>>
  /\ OnlyStaysViewChanges

\* a read of an earlier fetchPaymentHistory call rejects: its catch block
EarlierPaymentFetchFailed ==
  /\ \E i \in 1..Len(phEarlier) : phEarlier' = Without(phEarlier, i)
  /\ toasts < MaxToasts
  /\ toasts' = toasts + 1
  /\ phError' = "FirebaseError"
  /\ UNCHANGED <<customer, pc, history, rentEntry, custVars, fcEarlier,
                 paymentHistory, selectedCustomer, shopPurchases>>
  /\ OnlyStaysViewChanges

\* The whole view with every overlap of its calls: the user may select and
\* click while calls are in flight, and the calls settle in any order.
InitOverlaps ==
  /\ customer = NoCustomer
  /\ purchases = GuestPurchases
  /\ InitView
  /\ RoomsLoaded
  /\ checkins = GuestStays
  /\ selectedRoomId = ""
  /\ customers = << >>
  /\ fcpc = "idle"
  /\ fcRoomId = ""
  /\ fcError = ""
  /\ ListIdle
  /\ CacheIdle
  /\ ManageIdle
  /\ EarlierIdle
  /\ BatchIdle

NextOverlaps ==
  \/ SelectRoom
  \/ SelectRoomWhileFetching
  \/ CustomersRead
  \/ CustomersReadFailed
  \/ ClickListedCustomer
  \/ PaymentsRead
  \/ PaymentsReadFailed
  \/ PurchasesRead
  \/ PurchasesReadFailed
  \/ EarlierCustomersRead
  \/ EarlierCustomersReadFailed
  \/ ClickListedCustomerWhileFetching
  \/ EarlierPaymentsRead
  \/ EarlierPurchasesRead
  \/ EarlierPaymentFetchFailed

SpecOverlaps == InitOverlaps /\ [][NextOverlaps]_vars

(* ----------------- DataService: the reads for bookings ------------------ *)
\* longest list of booking ids
MaxBookingIds == 11

\* const batchSize = 10
batchSize == 10

\* the bookings asked for
BookingIds == {StayDocId(1), StayDocId(2)}

\* the payments subcollection of each booking
BookingPayments(bookingId) ==
  IF bookingId = StayDocId(1)
  THEN << PaymentDoc(1, 1, "initial", "cash", 1) >>
  ELSE << >>

\* bookingIds.slice(from, to), from and to counted from 0
Slice(ids, from, to) ==
  SubSeq(ids, from + 1, IF to < Len(ids) THEN to ELSE Len(ids))

\* for (let i = 0; i < bookingIds.length; i += batchSize)
\*   batches.push(bookingIds.slice(i, i + batchSize))
RECURSIVE BatchesFrom(_, _)
BatchesFrom(ids, i) ==
  IF i < Len(ids)
  THEN <<Slice(ids, i, i + batchSize)>> \o BatchesFrom(ids, i + batchSize)
  ELSE << >>

\* batches.flatMap(batch => batch.map(bookingId => getDocs(...))): the booking
\* of each read, in the order of the promises
RECURSIVE FlatMap(_)
FlatMap(batches) ==
  IF batches = << >> THEN << >>
  ELSE Head(batches) \o FlatMap(Tail(batches))

\* mutant: the index is taken within the batch
BookingIdAt_InBatch(ids, index) == ids[(index % batchSize) + 1]

\* bookingIds[Math.floor(index / batchSize) * batchSize + (index % batchSize)]
BookingIdAt(ids, index) ==
  ids[((index \div batchSize) * batchSize + (index % batchSize)) + 1]

\* what a read for a booking returns: its payments subcollection, or the
\* purchases where('checkinId', '==', bookingId)
DocsRead(kind, bookingId) ==
  IF kind = "payments" THEN BookingPayments(bookingId)
  ELSE SelectSeq(purchases, LAMBDA p : p.checkinId = bookingId)

\* results.map((snapshot, index) => ({ bookingId: ..., payments: ... }))
ResultsOf(kind, ids, asked) ==
  [k \in 1..Len(asked) |->
     [bookingId |-> BookingIdAt(ids, k - 1), docs |-> DocsRead(kind, asked[k])]]

\* nothing but the call for bookings changes
OnlyBatchChanges ==
  UNCHANGED <<customer, payments, purchases, now, pc, history, rentEntry,
              paymentHistory, selectedCustomer, shopPurchases, toasts, phError,
              custVars, roomVars, listVars, cacheVars, manageVars,
              earlierVars>>

\* either function up to its return of [] or to await Promise.all
CallForBookings(kind) ==
  /\ bfpc = "idle"
  /\ bfKind' = kind
  /\ IF Len(bookingIds) = 0
     THEN /\ bfpc' = "returned"
          /\ bfReads' = << >>
     ELSE /\ bfpc' = "reading"
          /\ bfReads' = FlatMap(BatchesFrom(bookingIds, 0))
  /\ UNCHANGED <<bookingIds, bfResult>>
  /\ OnlyBatchChanges

GetPaymentsForBookings == CallForBookings("payments")

GetPurchasesForBookings == CallForBookings("purchases")

\* every read resolves: Promise.all resolves with the snapshots in the order
\* of the promises, and the results are built
BookingReadsResolve ==
  /\ bfpc = "reading"
  /\ bfResult' = ResultsOf(bfKind, bookingIds, bfReads)
  /\ bfpc' = "returned"
  /\ UNCHANGED <<bookingIds, bfKind, bfReads>>
  /\ OnlyBatchChanges

\* a read rejects: console.error, throw error
BookingReadsReject ==
  /\ bfpc = "reading"
  /\ bfpc' = "thrown"
  /\ UNCHANGED <<bookingIds, bfKind, bfReads, bfResult>>
  /\ OnlyBatchChanges

\* One of the two functions is called with a list of booking ids.
InitBookings ==
  /\ customer = NoCustomer
  /\ purchases = GuestPurchases
  /\ InitView
  /\ CustomersIdle
  /\ RoomsIdle
  /\ ListIdle
  /\ CacheIdle
  /\ ManageIdle
  /\ EarlierIdle
  /\ bookingIds \in UNION { [1..n -> BookingIds] : n \in 0..MaxBookingIds }
  /\ bfKind = ""
  /\ bfpc = "idle"
  /\ bfReads = << >>
  /\ bfResult = << >>

NextBookings ==
  \/ GetPaymentsForBookings
  \/ GetPurchasesForBookings
  \/ BookingReadsResolve
  \/ BookingReadsReject

SpecBookings == InitBookings /\ [][NextBookings]_vars

(* ------------------------------ properties ----------------------------- *)
\* a payment history is on display
Viewing == selectedCustomer # NoCustomer

\* The stay is checked out before it is listed, and no document is written
\* after that: while Viewing, payments is what the fetch read.
NoEntries == payments = << >>

AbsValue(x) == IF x >= 0 THEN x ELSE 0 - x

Indexes(ph) == 1..Len(ph)

CountType(ph, ty) == Cardinality({ i \in Indexes(ph) : ph[i].type = ty })

\* the entries that add to the rent owed / that count as paid
OwedIndexes(ph) ==
  { i \in Indexes(ph) : ph[i].type \in {"extension", "shop-purchase"} }

PaidIndexes(ph) ==
  { i \in Indexes(ph) : /\ ph[i].type \in {"initial", "advance"}
                        /\ ph[i].mode \in {"cash", "gpay"} }

RECURSIVE SumAbsAmounts(_, _)
SumAbsAmounts(ph, S) ==
  IF S = {} THEN 0
  ELSE LET i == CHOOSE x \in S : TRUE
       IN  AbsValue(ph[i].amount) + SumAbsAmounts(ph, S \ {i})

RECURSIVE SumAmounts(_, _)
SumAmounts(ph, S) ==
  IF S = {} THEN 0
  ELSE LET i == CHOOSE x \in S : TRUE
       IN  ph[i].amount + SumAmounts(ph, S \ {i})

OwedOf(sc, ph) == sc.rent + SumAbsAmounts(ph, OwedIndexes(ph))

PaidOf(ph) == SumAmounts(ph, PaidIndexes(ph))

\* C1: a stay without payment documents is shown as exactly two entries, the
\* check-in charge of the rent and a synthesized initial cash payment of the
\* rent, and its pending balance is 0, whatever the rent.
C1_NoEntriesTwoEntriesPendingZero ==
  (Viewing /\ NoEntries) =>
    /\ Len(paymentHistory) = 2
    /\ paymentHistory[1].id = "rent-entry"
    /\ paymentHistory[1].type = "Rent (Check-in)"
    /\ paymentHistory[1].amount = selectedCustomer.rent
    /\ paymentHistory[2].id = "advance-entry"
    /\ paymentHistory[2].type = "initial"
    /\ paymentHistory[2].amount = selectedCustomer.rent
    /\ paymentHistory[2].mode = "cash"
    /\ Pending(selectedCustomer, paymentHistory) = 0

C1_Witness == Viewing /\ NoEntries /\ selectedCustomer.rent < 0

\* C2 as stated: a stay without payment documents has a pending balance equal
\* to its full rent.
C2_PendingEqualsRent ==
  (Viewing /\ NoEntries) =>
    Pending(selectedCustomer, paymentHistory) = selectedCustomer.rent

\* C2, amended: a stay without payment documents has total paid equal to its
\* full rent (the synthesized initial payment counts as paid), total rent owed
\* equal to its rent, and so a pending balance of 0.
C2_PaidEqualsRentPendingZero ==
  (Viewing /\ NoEntries) =>
    /\ TotalPaid(paymentHistory) = selectedCustomer.rent
    /\ TotalRent(selectedCustomer, paymentHistory) = selectedCustomer.rent
    /\ Pending(selectedCustomer, paymentHistory) = 0

C2_Witness == Viewing /\ NoEntries /\ selectedCustomer.rent > 0

\* C3: after a successful fetch the merged list holds exactly one check-in
\* charge entry and exactly one entry of type initial, for any real entries.
C3_OneChargeOneInitial ==
  Viewing =>
    /\ CountType(paymentHistory, "Rent (Check-in)") = 1
    /\ CountType(paymentHistory, "initial") = 1

C3_Witness ==
  /\ Viewing
  /\ CountType(payments, "initial") >= 2
  /\ CountType(payments, "advance") >= 1

HasInitial == \E i \in Indexes(payments) : payments[i].type = "initial"

FirstInitial ==
  CHOOSE i \in Indexes(payments) :
    /\ payments[i].type = "initial"
    /\ \A j \in 1..(i - 1) : payments[j].type # "initial"

\* C4: when the fetched entries hold an entry of type initial, nothing is
\* synthesized and the second element of the merged list is the first such
\* entry, unchanged in every field.
C4_RealInitialVerbatim ==
  (Viewing /\ HasInitial) =>
    /\ paymentHistory[2] = payments[FirstInitial]
    /\ \A i \in Indexes(paymentHistory) : paymentHistory[i].id # "advance-entry"

C4_Witness ==
  /\ Viewing
  /\ CountType(payments, "initial") >= 2
  /\ FirstInitial > 1

TailIndexes == { i \in Indexes(payments) : payments[i].type # "initial" }

TailRank(i) == Cardinality({ j \in TailIndexes : j <= i })

\* C5: the merged list is the check-in charge, the initial-payment entry, then
\* every real entry whose type is not initial, in the ascending-timestamp
\* order in which the store returned them.
C5_ChargeInitialThenTailInOrder ==
  Viewing =>
    /\ Len(paymentHistory) = 2 + Cardinality(TailIndexes)
    /\ paymentHistory[1].type = "Rent (Check-in)"
    /\ paymentHistory[2].type = "initial"
    /\ \A i \in TailIndexes : paymentHistory[2 + TailRank(i)] = payments[i]
    /\ \A k \in 3..(Len(paymentHistory) - 1) :
         paymentHistory[k].timestamp[1] <= paymentHistory[k + 1].timestamp[1]

C5_Witness ==
  /\ Viewing
  /\ \E i, j, k \in Indexes(payments) :
       /\ i < j /\ j < k
       /\ payments[i].type = "extension"
       /\ payments[j].type = "initial"
       /\ payments[k].type = "advance"

\* C6: total rent owed is the rent plus the sum of |amount| over the merged
\* entries of type extension or shop-purchase; a negative shop purchase adds
\* its absolute value, an entry of any other type adds nothing.
C6_TotalRentOwed ==
  Viewing =>
    TotalRent(selectedCustomer, paymentHistory) =
      OwedOf(selectedCustomer, paymentHistory)

C6_Witness ==
  /\ Viewing
  /\ \E i, j \in Indexes(paymentHistory) :
       /\ paymentHistory[i].type = "shop-purchase"
       /\ paymentHistory[i].amount < 0
       /\ paymentHistory[j].type \in {"advance", "other"}
       /\ paymentHistory[j].amount # 0
  /\ TotalRent(selectedCustomer, paymentHistory) > selectedCustomer.rent

\* an initial or advance entry paid by a mode other than cash or gpay
OtherModePayment(entry) ==
  /\ entry.type \in {"initial", "advance"}
  /\ entry.mode \notin {"cash", "gpay"}

NotOtherModePayment(entry) == ~OtherModePayment(entry)

\* C7: total paid is the sum of the amounts of the merged entries of type
\* initial or advance and mode cash or gpay; an initial or advance entry of
\* another mode changes neither total paid nor the pending balance.
C7_TotalPaid ==
  Viewing =>
    /\ TotalPaid(paymentHistory) = PaidOf(paymentHistory)
    /\ LET without == SelectSeq(paymentHistory, NotOtherModePayment)
       IN  /\ TotalPaid(without) = TotalPaid(paymentHistory)
           /\ Pending(selectedCustomer, without) =
                Pending(selectedCustomer, paymentHistory)

C7_Witness ==
  /\ Viewing
  /\ \E i, j \in Indexes(paymentHistory) :
       /\ OtherModePayment(paymentHistory[i])
       /\ paymentHistory[i].amount # 0
       /\ paymentHistory[j].type = "advance"
       /\ paymentHistory[j].mode = "gpay"
       /\ paymentHistory[j].amount > 0

\* C8: for every stay and every combination of entries the pending balance is
\* max(0, total rent owed - total paid), and so never negative.
C8_PendingFlooredAtZero ==
  Viewing =>
    LET due == OwedOf(selectedCustomer, paymentHistory) - PaidOf(paymentHistory)
    IN  /\ Pending(selectedCustomer, paymentHistory) >= 0
        /\ Pending(selectedCustomer, paymentHistory) = IF due >= 0 THEN due ELSE 0

C8_Witness ==
  /\ Viewing
  /\ selectedCustomer.rent < 0
  /\ \E i \in Indexes(payments) : payments[i].amount < 0
  /\ OwedOf(selectedCustomer, paymentHistory) < PaidOf(paymentHistory)

\* the merged list fetchPaymentHistory builds from the documents docs
MergedList(docs) ==
  LET h == OrderByTimestampAsc(docs)
  IN  FullHistory(RentEntry(customer, now), AdvanceEntry(customer, h, now), h)

\* an extension or shop-purchase document with a positive amount
PositiveCharge(d) ==
  /\ d.type \in {"extension", "shop-purchase"}
  /\ d.amount > 0

\* C9: appending an extension or shop-purchase entry with a positive amount
\* never decreases total rent owed.
C9_TotalRentMonotone ==
  [][ ( /\ Len(payments') = Len(payments) + 1
        /\ PositiveCharge(payments'[Len(payments')]) )
      => TotalRent(customer, MergedList(payments')) >=
           TotalRent(customer, MergedList(payments)) ]_vars

C9_Witness ==
  /\ Viewing
  /\ Len(payments) = MaxRichEntries
  /\ PositiveCharge(payments[Len(payments)])
  /\ OwedIndexes(MergedList(SubSeq(payments, 1, Len(payments) - 1))) # {}
  /\ TotalRent(selectedCustomer, paymentHistory) >
       TotalRent(selectedCustomer,
                 MergedList(SubSeq(payments, 1, Len(payments) - 1)))

\* the only real entry, or the first of two, is an initial cash payment of the rent
InitialCashOfRent(d) ==
  /\ d.type = "initial"
  /\ d.mode = "cash"
  /\ d.amount = selectedCustomer.rent

\* C10: with an initial cash payment of the rent r as the only real entry the
\* list has two entries, total rent owed r, total paid r, pending 0; one more
\* extension entry of e > 0 gives total rent owed r + e, pending e, paid r.
C10_InitialThenExtension ==
  Viewing =>
    /\ (Len(payments) = 1 /\ InitialCashOfRent(payments[1])) =>
         /\ Len(paymentHistory) = 2
         /\ TotalRent(selectedCustomer, paymentHistory) = selectedCustomer.rent
         /\ TotalPaid(paymentHistory) = selectedCustomer.rent
         /\ Pending(selectedCustomer, paymentHistory) = 0
    /\ ( /\ Len(payments) = 2
         /\ InitialCashOfRent(payments[1])
         /\ payments[2].type = "extension"
         /\ payments[2].amount > 0 ) =>
         /\ TotalRent(selectedCustomer, paymentHistory) =
              selectedCustomer.rent + payments[2].amount
         /\ TotalPaid(paymentHistory) = selectedCustomer.rent
         /\ Pending(selectedCustomer, paymentHistory) = payments[2].amount

C10_Witness ==
  /\ Viewing
  /\ selectedCustomer.rent > 0
  /\ Len(payments) = 2
  /\ InitialCashOfRent(payments[1])
  /\ payments[2].type = "extension"
  /\ payments[2].amount > 0
  /\ Pending(selectedCustomer, paymentHistory) = payments[2].amount

(* ----------------------- fetchCustomers: the list ----------------------- *)
\* positions of the stored stays of a room that are checked out
CheckedOutStaysOf(roomId) ==
  { i \in 1..Len(checkins) :
      checkins[i].roomId = roomId /\ checkins[i].isCheckedOut = TRUE }

\* every listed customer is one stored stay of the room, checked out, with
\* that stay's check-in time, and every such stay is listed once
ListsExactly(cs, roomId) ==
  /\ Len(cs) = Cardinality(CheckedOutStaysOf(roomId))
  /\ \A i \in CheckedOutStaysOf(roomId) :
       \E k \in 1..Len(cs) :
         /\ cs[k].id = checkins[i].id
         /\ cs[k].checkedInAt = checkins[i].checkedInAt
         /\ cs[k].roomId = roomId
         /\ cs[k].isCheckedOut = TRUE

\* check-in times never increase along the list
NewestFirst(cs) ==
  \A i, j \in 1..Len(cs) :
    i < j => cs[i].checkedInAt[1] >= cs[j].checkedInAt[1]

\* a fetchCustomers call returns without entering its catch block
FetchCustomersSucceeds ==
  fcpc = "getCheckins" /\ fcpc' = "idle" /\ fcError' = ""

\* C11: when a fetchCustomers(roomId) call succeeds, customers is exactly the
\* stored stays whose roomId is the argument and that are checked out, ordered
\* by check-in time, newest first (never increasing).
C11_ListsCheckedOutStaysNewestFirst ==
  [][FetchCustomersSucceeds =>
       /\ ListsExactly(customers', fcRoomId)
       /\ NewestFirst(customers')]_vars

\* room-1 was fetched from a store that also holds a stay the query leaves
\* out, and the sort moved the later stay to the front
C11_Witness ==
  /\ fcpc = "idle" /\ fcError = ""
  /\ selectedRoomId = "room-1" /\ fcRoomId = "room-1"
  /\ Len(checkins) = 3
  /\ Len(customers) = 2
  /\ customers[1].id = StayDocId(3)
  /\ customers[1].checkedInAt[1] > customers[2].checkedInAt[1]

\* C13: a missing field never turns a successful store read into a failure:
\* whenever the checkins read is not rejected, fetchCustomers sets customers
\* and raises no error notification, whichever fields are absent.
C13_MissingFieldNeverFails ==
  [][(fcpc = "getCheckins" /\ fcError' # "FirebaseError") =>
       /\ ListsExactly(customers', fcRoomId)
       /\ toasts' = toasts]_vars

(* ------------------------------ the defaults ---------------------------- *)
\* the stored checkins document a listed customer was built from
StayDocOf(c) ==
  CHOOSE d \in { checkins[i] : i \in 1..Len(checkins) } : d.id = c.id

\* the stored rooms document a listed room was built from
RoomDocOf(r) ==
  CHOOSE d \in { roomDocs[i] : i \in 1..Len(roomDocs) } : d.id = r.id

\* a missing field takes the default, a present one is passed through
PassedOrDefault(field, value, default) ==
  IF field = Missing THEN value = default ELSE value = field[1]

\* a missing or empty string takes the default, any other is passed through
NonEmptyOrDefault(field, value, default) ==
  IF field = Missing \/ field = <<"">> THEN value = default
  ELSE value = field[1]

\* C12 as stated: every listed stay and room carries the documented default
\* for each missing field ('Unknown Guest', 'N/A', rent 0, floor '1',
\* roomNumber 0), and every field that is present unchanged.
C12_PresentFieldsUnchanged ==
  /\ \A i \in 1..Len(customers) :
       LET c == customers[i]
           d == StayDocOf(c)
       IN  /\ PassedOrDefault(d.guestName, c.guestName, "Unknown Guest")
           /\ PassedOrDefault(d.phoneNumber, c.phoneNumber, "N/A")
           /\ PassedOrDefault(d.rent, c.rent, 0)
  /\ \A i \in 1..Len(rooms) :
       LET r == rooms[i]
           d == RoomDocOf(r)
       IN  /\ PassedOrDefault(d.floor, r.floor, "1")
           /\ PassedOrDefault(d.roomNumber, r.roomNumber, 0)

\* C12, amended: a missing field takes the documented default, a guest name,
\* phone number or floor that is present but empty takes the default too, and
\* every other present field (a rent or room number of 0 included) is
\* unchanged.
C12_NonEmptyFieldsUnchanged ==
  /\ \A i \in 1..Len(customers) :
       LET c == customers[i]
           d == StayDocOf(c)
       IN  /\ NonEmptyOrDefault(d.guestName, c.guestName, "Unknown Guest")
           /\ NonEmptyOrDefault(d.phoneNumber, c.phoneNumber, "N/A")
           /\ PassedOrDefault(d.rent, c.rent, 0)
  /\ \A i \in 1..Len(rooms) :
       LET r == rooms[i]
           d == RoomDocOf(r)
       IN  /\ NonEmptyOrDefault(d.floor, r.floor, "1")
           /\ PassedOrDefault(d.roomNumber, r.roomNumber, 0)

\* a stay without guest name and with an empty phone number is listed, for a
\* room stored without floor next to a room stored on floor 2
C12_Witness ==
  /\ Len(customers) = 1
  /\ StayDocOf(customers[1]).guestName = Missing
  /\ StayDocOf(customers[1]).phoneNumber = <<"">>
  /\ customers[1].phoneNumber = "N/A"
  /\ StayDocOf(customers[1]).rent = <<1>>
  /\ Len(rooms) = 2
  /\ \E i \in 1..2 : RoomDocOf(rooms[i]).floor = Missing /\ rooms[i].floor = "1"
  /\ \E i \in 1..2 : RoomDocOf(rooms[i]).floor = <<"2">>

(* --------------------------- failed store reads ------------------------- *)
\* the checkins read of a fetchCustomers call is rejected
CustomersFetchFails == fcpc = "getCheckins" /\ fcError' = "FirebaseError"

\* the payments read or the shop-purchases read of a fetchPaymentHistory call
\* is rejected
PaymentFetchFails ==
  /\ (pc = "getPayments" \/ pc = "getPurchases")
  /\ phError' = "FirebaseError"

\* C14: when a store read fails during fetchCustomers or fetchPaymentHistory
\* (the payments read or the shop-purchases read), one error notification is
\* raised and customers, selectedCustomer, paymentHistory and shopPurchases
\* keep the values they had.
C14_FailedReadKeepsState ==
  [][(CustomersFetchFails \/ PaymentFetchFails) =>
       /\ toasts' = toasts + 1
       /\ UNCHANGED <<customers, selectedCustomer, paymentHistory,
                      shopPurchases>>]_vars

\* a payment fetch and a customers fetch have both failed while a stay list,
\* a selected stay, its history and its purchases were shown, and all are kept
C14_Witness ==
  /\ fcpc = "idle" /\ fcError = "FirebaseError"
  /\ pc = "idle" /\ phError = "FirebaseError"
  /\ toasts = 2
  /\ Len(customers) = 2
  /\ selectedCustomer # NoCustomer
  /\ Len(paymentHistory) = 2
  /\ shopPurchases # << >>

(* ------------------------------ rooms fetches --------------------------- *)
\* C15: when the newer RoomList is unmounted while its rooms fetch is in
\* flight, the result is discarded: until the fetch has settled and after, no
\* state update (rooms, loading, error) happens and no notification is raised.
C15_UnmountedFetchDiscarded ==
  [][(rlVersion = "part_001" /\ ~rlMounted /\ rlpc = "getRooms") =>
       UNCHANGED <<rlRooms, rlLoading, rlError, toasts>>]_vars

\* C16: every rooms fetch leaves its view non-loading: BookedRooms.fetchRooms,
\* and the fetchRooms of both RoomList versions ('Try Again' included) while
\* the screen stays mounted, are followed by loading = false once the store
\* has replied with data or with a failure.
C16_FetchEndsLoading ==
  /\ (frpc = "getRooms") ~> (frpc = "idle" /\ ~loading)
  /\ (rlpc = "getRooms" /\ rlMounted)
       ~> (~rlMounted \/ (rlpc = "idle" /\ ~rlLoading))

\* 'Try Again' was pressed after a failure and the second fetch listed two rooms
C16_Witness ==
  /\ rlVersion = "part_001" /\ rlMounted
  /\ toasts = 1 /\ rlLogged = ""
  /\ rlpc = "idle" /\ ~rlLoading /\ rlError = NoError
  /\ Len(rlRooms) = 2

\* a rooms fetch of BookedRooms, a fetchCustomers call or a rooms fetch of the
\* newer RoomList enters its catch block
RoomsFetchFails == frpc = "getRooms" /\ frError' = "FirebaseError"

ListFetchFails ==
  rlVersion = "part_001" /\ rlpc = "getRooms" /\ rlLogged' = "FirebaseError"

\* C17: a failed store read surfaces exactly once and is never retried
\* automatically: the failing fetch raises one error notification and leaves
\* no read in flight, and a read only starts with a user action: a changed
\* room selection, or 'Try Again' pressed on the error state.
C17_OneNotificationNoRetry ==
  [][/\ (RoomsFetchFails \/ CustomersFetchFails \/ ListFetchFails) =>
          /\ toasts' = toasts + 1
          /\ frpc' = "idle" /\ fcpc' = "idle" /\ rlpc' = "idle"
     /\ frpc' = "getRooms" => frpc = "getRooms"
     /\ (fcpc' = "getCheckins" /\ fcpc # "getCheckins") =>
          (selectedRoomId' # selectedRoomId /\ fcRoomId' = selectedRoomId')
     /\ (rlpc' = "getRooms" /\ rlpc # "getRooms") =>
          (rlMounted /\ rlError # NoError /\ ~rlLoading /\ rlLoading')]_vars

\* the error state of RoomList is shown for the second time, after one
\* 'Try Again', with two notifications raised and no read in flight
C17_Witness ==
  /\ rlVersion = "part_001" /\ rlMounted
  /\ rlError = ReadErrorMessage /\ ~rlLoading
  /\ rlLogged = "FirebaseError"
  /\ rlpc = "idle"
  /\ toasts = 2

(* ------------------------- evaluated a second time ---------------------- *)
\* a fetchPaymentHistory call for the stay already shown returns
SecondEvaluation ==
  /\ Viewing
  /\ selectedCustomer = customer
  /\ pc = "getPurchases" /\ pc' = "idle" /\ phError' = ""

\* the totals of the view are what they were
SameTotals ==
  /\ TotalRent(selectedCustomer', paymentHistory')
       = TotalRent(selectedCustomer, paymentHistory)
  /\ TotalPaid(paymentHistory') = TotalPaid(paymentHistory)
  /\ Pending(selectedCustomer', paymentHistory')
       = Pending(selectedCustomer, paymentHistory)

\* an entry fetchPaymentHistory made up rather than read
Synthesized(e) == e.id = "rent-entry" \/ e.id = "advance-entry"

\* the entries are what they were but for the timestamps the predicate allows
\* to differ
SameEntriesBut(MayDiffer(_)) ==
  /\ Len(paymentHistory') = Len(paymentHistory)
  /\ \A i \in 1..Len(paymentHistory) :
       LET e == paymentHistory[i]
           f == paymentHistory'[i]
       IN  /\ f.id = e.id /\ f.amount = e.amount /\ f.mode = e.mode
           /\ f.type = e.type /\ f.description = e.description
           /\ f.timestamp # e.timestamp => MayDiffer(e)

SynthesizedWithoutCheckIn(e) ==
  Synthesized(e) /\ customer.checkedInAt = NoTimestamp

\* C18 as stated: evaluated twice on the same stay and the same fetched
\* entries, reconciliation gives the same transaction list, every entry's
\* timestamp included, and the same totals, also for a stay whose check-in
\* timestamp is absent.
C18_SameListAndTotals ==
  [][SecondEvaluation =>
       /\ paymentHistory' = paymentHistory
       /\ SameTotals]_vars

\* C18, amended: evaluated twice on the same stay and the same fetched
\* entries, reconciliation gives the same totals and the same entries; only
\* the timestamps of the synthesized entries of a stay whose check-in
\* timestamp is absent may differ, being the time of each evaluation.
C18_SameButSynthesizedTimes ==
  [][SecondEvaluation =>
       /\ SameEntriesBut(SynthesizedWithoutCheckIn)
       /\ SameTotals]_vars

\* the history of a stay without check-in time is shown, and a second fetch of
\* it has built its rent entry at a later time
C18_Witness ==
  /\ Viewing /\ selectedCustomer = customer
  /\ customer.checkedInAt = NoTimestamp
  /\ pc = "getPurchases"
  /\ Len(payments) = 1
  /\ rentEntry.timestamp # paymentHistory[1].timestamp

(* --------------------------- shop-purchase total ------------------------ *)
\* C19: the shop-purchase total shown for the selected stay is the sum of the
\* amounts of all its fetched shop purchases, whatever payment entries the
\* stay has and whatever the merged list holds.
C19_ShopTotalIsSumOfPurchases ==
  Viewing =>
    GetTotalShopPurchases(shopPurchases)
      = SumAmounts(purchases, Indexes(purchases))

\* two purchases of 2 and 3 are shown next to a history that holds a payment
\* entry of type shop-purchase
C19_Witness ==
  /\ Viewing
  /\ Len(shopPurchases) = 2
  /\ GetTotalShopPurchases(shopPurchases) = 5
  /\ \E i \in Indexes(paymentHistory) : paymentHistory[i].type = "shop-purchase"

(* ------------------------------- the cache ------------------------------ *)
\* a call of getRoomsWithBookings or getAllPayments is made
CallMade == lastCall' # lastCall

\* the entry of a key has been stored for less than the cache duration
StoredRecently(key) ==
  /\ cache[key] # << >>
  /\ clockMs - cache[key][1].timestamp < CACHE_DURATION

\* a call returns the cached value without a store read only if the value was
\* stored less than CACHE_DURATION ago
ServesOnlyRecent ==
  (CallMade /\ lastCall'.from = "cache") =>
    /\ StoredRecently(lastCall'.key)
    /\ lastCall'.data = cache[lastCall'.key][1].data
    /\ reads' = reads

\* any other call reads the store, and the read replaces the entry
ReadsAndReplacesOtherwise ==
  /\ (CallMade /\ ~StoredRecently(lastCall'.key)) =>
       /\ lastCall'.from = "store"
       /\ Len(reads') = Len(reads) + 1
  /\ \A k \in CacheKeys :
       cache'[k] # cache[k] /\ cache'[k] # << >> =>
         /\ cache'[k][1].timestamp = clockMs
         /\ Len(reads') = Len(reads) - 1

\* the call that follows clearCache reads the store
ReadsAfterClear ==
  (CallMade /\ cleared[lastCall'.key]) => lastCall'.from = "store"

\* C20: DataService never serves a cached value that is 30 s old or older:
\* getRoomsWithBookings and getAllPayments return the cached value without
\* reading the store only if it was stored less than 30 s ago, otherwise they
\* read the store and replace the entry, and after clearCache the next call
\* always reads the store.
C20_CacheFreshAndCleared ==
  [][ServesOnlyRecent /\ ReadsAndReplacesOtherwise /\ ReadsAfterClear]_vars

(* --------------------------- redundant reads ---------------------------- *)
\* the store reads in flight for a cache key
ReadsInFlight(key) == { i \in 1..Len(reads) : reads[i].key = key }

\* C21: the cache prevents redundant store reads: calls of
\* getRoomsWithBookings made within one 30-second window, calls that overlap
\* the first read included, read the store at most once, so that no two reads
\* for its key are ever in flight together.
C21_OneReadPerWindow ==
  Cardinality(ReadsInFlight("rooms_with_bookings_{}")) <= 1

(* ------------------------------ the room order -------------------------- *)
\* the number a floor string stands for
FloorNumber(floor) ==
  CASE floor = "1" -> 1 [] floor = "2" -> 2 [] floor = "10" -> 10

\* rooms are in the order of their floor numbers and, on one floor, of their
\* room numbers
InFloorThenNumberOrder(rs) ==
  \A i, j \in 1..Len(rs) :
    i < j =>
      \/ FloorNumber(rs[i].floor) < FloorNumber(rs[j].floor)
      \/ /\ rs[i].floor = rs[j].floor
         /\ rs[i].roomNumber <= rs[j].roomNumber

\* every stored room is listed once
ListsEveryRoom(rs) ==
  /\ Len(rs) = Len(roomDocs)
  /\ \A i \in 1..Len(roomDocs) : \E k \in 1..Len(rs) : rs[k].id = roomDocs[i].id

\* the floor options hold each floor of the rooms once, lower numbers first
FloorOptionsInOrder(rs) ==
  LET fs == UniqueFloorsOf(rs)
  IN  /\ { fs[i] : i \in 1..Len(fs) } = { rs[i].floor : i \in 1..Len(rs) }
      /\ \A i, j \in 1..Len(fs) :
           i < j => FloorNumber(fs[i]) < FloorNumber(fs[j])

\* the rooms offered for a floor are its rooms, by ascending room number
RoomOptionsInOrder(rs) ==
  \A f \in { rs[i].floor : i \in 1..Len(rs) } :
    LET fr == FilteredRoomsOf(rs, f)
    IN  /\ { fr[i].id : i \in 1..Len(fr) }
             = { rs[i].id : i \in { k \in 1..Len(rs) : rs[k].floor = f } }
        /\ \A i, j \in 1..Len(fr) :
             i < j => fr[i].roomNumber <= fr[j].roomNumber

\* a fetchRooms call of BookedRooms returns without entering its catch block
FetchRoomsSucceeds ==
  frpc = "getRooms" /\ frpc' = "idle" /\ frError' = ""

\* C22: the room list shown for selection is sorted by floor compared
\* numerically and, within a floor, by room number ascending; after a
\* successful load with at least one room the selected floor is the floor of
\* the first (lowest) room; and the floor options hold each floor once in
\* numeric order.
C22_RoomsByFloorThenNumber ==
  [][FetchRoomsSucceeds =>
       /\ ListsEveryRoom(rooms')
       /\ InFloorThenNumberOrder(rooms')
       /\ RoomOptionsInOrder(rooms')
       /\ FloorOptionsInOrder(rooms')
       /\ Len(rooms') > 0 =>
            /\ selectedFloor' = rooms'[1].floor
            /\ \A i \in 1..Len(rooms') :
                 FloorNumber(selectedFloor') <= FloorNumber(rooms'[i].floor)]_vars

\* three rooms stored on floors 10, 2 and 2 with the higher number first are
\* listed as 2/101, 2/102, 10, and floor 2 is selected
C22_Witness ==
  /\ frpc = "idle" /\ frError = "" /\ ~loading
  /\ Len(roomDocs) = 3
  /\ roomDocs[1].floor = <<"10">>
  /\ roomDocs[2].floor = <<"2">> /\ roomDocs[2].roomNumber = <<102>>
  /\ roomDocs[3].floor = <<"2">> /\ roomDocs[3].roomNumber = <<101>>
  /\ Len(rooms) = 3
  /\ rooms[1].id = RoomDocId(3) /\ rooms[2].id = RoomDocId(2)
  /\ rooms[3].id = RoomDocId(1)
  /\ selectedFloor = "2"
  /\ UniqueFloorsOf(rooms) = <<"2", "10">>

(* ------------------------------ room management ------------------------- *)
\* an update of a room's status or of its pending-payment flag has been sent
\* to the store
UpdateIssued == \E c \in issued : c.kind \in {"status", "payment"}

\* C23: from the room-management view a sequence of user actions makes the
\* code issue an update of a room's status or of its pending-payment flag:
\* a user who keeps opening and confirming the modal eventually has
\* handleStatusChange or handlePaymentStatusChange run its updateDoc call.
C23_UpdateIsIssued == <>UpdateIssued

\* C23, as the code has it: no sequence of user actions issues an update, since
\* the modal is only ever opened for a deletion.
C23_OnlyDeletesIssued ==
  /\ ~UpdateIssued
  /\ confirmModal.show => confirmModal.action = "delete"

\* 'Confirm' was clicked in the open modal, and what was sent is a delete
C23_Witness ==
  /\ confirmModal.show
  /\ \E i \in 1..Len(calls) : calls[i].confirmModal = confirmModal
  /\ issued = {[kind |-> "delete", roomId |-> confirmModal.roomId]}

(* ------------------------------ room deletion --------------------------- *)
\* the store has answered the i-th call in flight, a deletion
DeleteAnswered(i) ==
  /\ i \in 1..Len(calls)
  /\ calls[i].kind = "delete"
  /\ calls' = WithoutCall(i)

\* the rooms list without a room
RoomsWithout(rs, id) == SelectSeq(rs, LAMBDA r : r.id # id)

\* C28: confirming a room deletion: if the store delete succeeds, that room
\* and only that room is removed from the local rooms list, the modal is
\* closed and a success notification is raised; if the store delete fails, the
\* local rooms list and the modal state are unchanged and an error
\* notification is raised.
C28_DeleteRemovesOnlyThatRoom ==
  [][\A i \in 1..Len(calls) :
       DeleteAnswered(i) =>
         \/ /\ successToasts' = successToasts + 1
            /\ toasts' = toasts
            /\ rlRooms' = RoomsWithout(rlRooms, calls[i].confirmModal.roomId)
            /\ ~confirmModal'.show
         \/ /\ toasts' = toasts + 1
            /\ successToasts' = successToasts
            /\ rlRooms' = rlRooms
            /\ confirmModal' = confirmModal]_vars

(* ------------------------- what may be deleted -------------------------- *)
\* the status the rooms list holds for a room, if the room is listed
LocalStatusOf(id) ==
  { rlRooms[i].status : i \in { k \in 1..Len(rlRooms) : rlRooms[k].id = id } }

\* a delete command is sent to the store in this step
DeleteIssued == \E i \in 1..Len(calls') : calls' = Append(calls, calls'[i])

\* C29: through the room-management view a delete command is only ever issued
\* for a room whose locally held status is not 'occupied': the delete
\* confirmation is only open for a listed room that is not occupied, every
\* delete is issued for the room of the open confirmation, and nothing is
\* issued while no room id is pending in the modal.
C29_NeverDeletesOccupied ==
  [][/\ confirmModal'.show =>
          /\ LocalStatusOf(confirmModal'.roomId) # { }
          /\ <<"occupied">> \notin LocalStatusOf(confirmModal'.roomId)
     /\ DeleteIssued =>
          /\ confirmModal.show
          /\ calls'[Len(calls')].kind = "delete"
          /\ calls'[Len(calls')].confirmModal.roomId = confirmModal.roomId
          /\ LocalStatusOf(confirmModal.roomId) # { }
          /\ <<"occupied">> \notin LocalStatusOf(confirmModal.roomId)
     /\ confirmModal.roomId = "" => issued' = issued]_vars

\* with an occupied room and another room on screen, a delete has been issued
\* for the other room and for it alone
C29_Witness ==
  /\ Len(rlRooms) = 2
  /\ rlRooms[1].status = <<"occupied">>
  /\ rlRooms[2].status = <<"available">>
  /\ Len(calls) = 1
  /\ issued = {[kind |-> "delete", roomId |-> rlRooms[2].id]}

(* --------------------------- repeated initials -------------------------- *)
\* the stored entries of type initial after the first one
LaterInitials ==
  { i \in Indexes(payments) :
      /\ payments[i].type = "initial"
      /\ \E j \in 1..(i - 1) : payments[j].type = "initial" }

\* the stored entries that count as paid, the later initials left out
PaidDocuments ==
  { i \in Indexes(payments) \ LaterInitials :
      /\ payments[i].type \in {"initial", "advance"}
      /\ payments[i].mode \in {"cash", "gpay"} }

\* C24: the merged list has length 2 + (number of real entries whose type is
\* not 'initial'); when a stay has several real entries of type 'initial', only
\* the first is kept, and every later one is absent from the list and
\* contributes nothing to total paid.
C24_OnlyFirstInitialKept ==
  Viewing =>
    /\ Len(paymentHistory) =
         2 + Cardinality({ i \in Indexes(payments) : payments[i].type # "initial" })
    /\ \A i \in LaterInitials :
         /\ paymentHistory[2] = payments[FirstInitial]
         /\ \A k \in Indexes(paymentHistory) : paymentHistory[k].id # payments[i].id
    /\ LaterInitials # { } =>
         TotalPaid(paymentHistory) = SumAmounts(payments, PaidDocuments)

\* two initial entries are stored, the later one a cash payment of another
\* amount than the first
C24_Witness ==
  /\ Viewing
  /\ Len(payments) = 2
  /\ payments[1].type = "initial" /\ payments[2].type = "initial"
  /\ payments[2].mode = "cash"
  /\ payments[2].amount = 1
  /\ payments[1].amount = 0

(* ------------------------- calls that overlap --------------------------- *)
\* the shop purchases the store links to a stay
PurchasesOfStay(id) == SelectSeq(purchases, LAMBDA p : p.checkinId = id)

\* the list, the purchases and the selected stay on display belong together
ShowsOneStay(sc, ph, sp) ==
  /\ Len(ph) >= 2
  /\ ph[1].type = "Rent (Check-in)"
  /\ ph[1].amount = sc.rent
  /\ ph[1].timestamp = sc.checkedInAt
  /\ ph[2].type = "initial"
  /\ ph[2].id = "advance-entry" => ph[2].amount = sc.rent
  /\ sp = PurchasesOfStay(sc.id)

\* a fetchCustomers call, the latest or an earlier one, returns without
\* entering its catch block
StayListFetchSucceeds ==
  /\ toasts' = toasts
  /\ \/ fcpc = "getCheckins" /\ fcpc' = "idle"
     \/ Len(fcEarlier') < Len(fcEarlier)

\* C25: in every reachable state of the customer-history view, if
\* selectedCustomer is non-null then paymentHistory is the merged list built for
\* that same stay (at least two entries, the first the check-in charge of
\* selectedCustomer.rent) and shopPurchases are that stay's purchases; and
\* whenever a stay-list fetch succeeds, selectedCustomer is null and
\* paymentHistory and shopPurchases are empty.
C25_ViewShowsOneStay ==
  [][/\ selectedCustomer' # NoCustomer =>
          ShowsOneStay(selectedCustomer', paymentHistory', shopPurchases')
     /\ StayListFetchSucceeds =>
          /\ selectedCustomer' = NoCustomer
          /\ paymentHistory' = << >>
          /\ shopPurchases' = << >>]_vars

\* the stays of room-2 are listed (a stay-list fetch succeeded) and then a
\* payment fetch started before has put the second stay of room-1, which has
\* no purchases, on display
C25_Witness ==
  /\ Len(customers) = 1 /\ customers[1].id = StayDocId(3)
  /\ selectedCustomer.id = StayDocId(2)
  /\ paymentHistory[1].amount = 2
  /\ shopPurchases = << >>
  /\ pc = "idle" /\ phEarlier = << >>

\* C26: last selection wins for rooms: if the user selects room A and then
\* room B, then once both stay-list fetches have resolved, in either completion
\* order, every stay in the customers list belongs to the currently selected
\* room B.
C26_LastSelectionWins ==
  (/\ selectedRoomId # ""
   /\ fcpc = "idle" /\ fcEarlier = << >>
   /\ fcError = "") =>
    \A i \in 1..Len(customers) : customers[i].roomId = selectedRoomId

\* C27: under every interleaving of stay-list fetch completions and
\* payment-history fetch completions, whenever selectedCustomer is non-null it
\* is one of the stays in the current customers list.
C27_SelectedStayIsListed ==
  selectedCustomer # NoCustomer =>
    \E i \in 1..Len(customers) : customers[i] = selectedCustomer

(* --------------------------- reads for bookings ------------------------- *)
\* the documents the store holds for a booking
StoredFor(kind, bookingId) ==
  IF kind = "payments"
  THEN IF bookingId = StayDocId(1)
       THEN << PaymentDoc(1, 1, "initial", "cash", 1) >> ELSE << >>
  ELSE IF bookingId = StayDocId(1)
       THEN << [id |-> "shop-1", checkinId |-> StayDocId(1), amount |-> 2] >>
       ELSE << >>

\* C30: getPaymentsForBookings(ids) and getPurchasesForBookings(ids) return
\* exactly one result per input id, in input order, with result[i].bookingId =
\* ids[i] and result[i] holding the documents read for ids[i], for every input
\* length, a multiple of the batch size or not; for an empty input they return
\* an empty list without reading the store.
C30_OneResultPerBookingInOrder ==
  bfpc = "returned" =>
    /\ Len(bfResult) = Len(bookingIds)
    /\ \A i \in 1..Len(bookingIds) :
         /\ bfResult[i].bookingId = bookingIds[i]
         /\ bfResult[i].docs = StoredFor(bfKind, bookingIds[i])
    /\ bookingIds = << >> => bfResult = << >> /\ bfReads = << >>

\* eleven bookings, one more than a batch, the eleventh another booking than
\* the first: the purchases of each have been returned
C30_Witness ==
  /\ bfpc = "returned" /\ bfKind = "purchases"
  /\ Len(bookingIds) = 11
  /\ bookingIds[1] = StayDocId(1)
  /\ bookingIds[11] = StayDocId(2)
  /\ Len(bfResult) = 11
  /\ bfResult[1].docs # << >>
  /\ bfResult[11].docs = << >>

====
